---- MODULE Spec2Model ----
\* POSIX skin message queues (pse51 mq): the queue object with its message
\* pool, priority list, two wait queues and notifier, the descriptors of its
\* openers, and the send/receive engine with the direct hand-off path.
\*
\* Every body that the code runs under nklock without sleeping is one action.
\* A blocking call is cut where the caller sleeps (xnsynch_sleep_on): the call
\* action runs the loop up to the sleep, a wake-up source moves the sleeper
\* to its "woken" position, and the resume action runs the rest of the loop.
\* mq_open is cut where it drops nklock around pse51_mq_init.
EXTENDS Integers, Sequences, FiniteSets, TLC

\* ------------------------------------------------------------------ bounds

\* Largest mq_maxmsg a creating mq_open asks for.
MaxMsgs == 2

\* ------------------------------------------------------------- error codes

OK == "OK"
EPERM == "EPERM"
EINVAL == "EINVAL"
ENOSPC == "ENOSPC"
ENOMEM == "ENOMEM"
EMSGSIZE == "EMSGSIZE"
EAGAIN == "EAGAIN"
EBADF == "EBADF"
EINTR == "EINTR"
ETIMEDOUT == "ETIMEDOUT"
EBUSY == "EBUSY"
EEXIST == "EEXIST"
ENOENT == "ENOENT"
EMFILE == "EMFILE"

\* The status of a pse51_node_add_start that fails, whatever its value.
EADDFAIL == "EADDFAIL"

\* ----------------------------------------------------------------- threads

NULL == "NULL"

\* The callers: the root (Linux) context, two POSIX skin threads and a thread
\* of another skin.
Threads == {"root", "p1", "p2", "k1"}

\* xnpod_root_p(): the caller runs in the root thread.
xnpod_root_p(t) == t = "root"

\* A nucleus in which every caller may sleep.
EveryoneMaySleep(t) == FALSE

\* xnpod_unblockable_p(): the caller may not sleep.
xnpod_unblockable_p(t) == xnpod_root_p(t)

\* thread2pthread(): the POSIX thread of a nucleus thread, NULL for NULL and
\* for a thread whose magic is not the POSIX skin's.
thread2pthread(t) == IF t \in {"p1", "p2"} THEN t ELSE NULL

\* pse51_current_thread()
pse51_current_thread(t) == thread2pthread(t)

\* The scheduling priority of a thread, the key of the XNSYNCH_PRIO queues.
ThreadPrio(t) == IF t = "p2" THEN 2 ELSE 1

\* ------------------------------------------------------------ open flags

O_RDONLY == "O_RDONLY"
O_WRONLY == "O_WRONLY"
O_RDWR == "O_RDWR"
O_NONBLOCK == "O_NONBLOCK"
O_CREAT == "O_CREAT"
O_EXCL == "O_EXCL"

\* A flag word: the access mode under PSE51_PERMS_MASK and the set of the
\* other bits.
Flags(perms, bits) == [perms |-> perms, bits |-> bits]

\* flags & PSE51_PERMS_MASK
PermsOf(flags) == flags.perms

\* A flags word taken over from the caller whole.
SetattrFlagsWhole(old, new) == new

\* (old & PSE51_PERMS_MASK) | (new & ~PSE51_PERMS_MASK)
SetattrFlags(old, new) == Flags(old.perms, new.bits)

\* oflags & (O_NONBLOCK | PSE51_PERMS_MASK)
OpenDescFlags(oflags) == Flags(oflags.perms, oflags.bits \cap {O_NONBLOCK})

\* ------------------------------------------------------------ input sets

\* The queue names, the descriptor numbers and the queue objects the heap
\* can hold at a time.
Names == {"/q"}
Fds == {1, 2}
Mqs == {1, 2}

\* mq_open: the oflags words and the attributes of the callers.
OpenFlags ==
    { Flags(p, b) : p \in {O_RDONLY, O_WRONLY, O_RDWR},
                    b \in {{}, {O_CREAT}, {O_CREAT, O_EXCL}, {O_NONBLOCK}} }
Attrs == [mq_maxmsg : 0..MaxMsgs, mq_msgsize : {1, 2}]

\* mq_setattr: the mq_flags words of the callers.
SetFlags == { Flags(p, b) : p \in {O_RDONLY, O_RDWR}, b \in {{}, {O_NONBLOCK}} }

\* mq_send: the buffers with the length handed in, and the priorities.
SendBufs == { [buffer |-> <<1>>, len |-> 1], [buffer |-> <<2, 3>>, len |-> 2],
              [buffer |-> <<4, 5, 6>>, len |-> 3] }
Prios == {0, 1}

\* mq_receive: the lengths of the caller's buffer.
RcvLens == {1, 2}

\* mq_timedsend, mq_timedreceive: the tv_nsec fields and whether the deadline
\* is still ahead when the call is made.
ONE_BILLION == 1000000000
Nsecs == {0, ONE_BILLION - 1, ONE_BILLION, ONE_BILLION + 1, -1}
Deadlines == {"past", "future"}

\* mq_notify: the sigevent of the caller (NULL, or notify mode, signal number
\* and value).
SIGRTMAX == 64
Sigevents ==
    { [sigev_notify |-> "SIGEV_SIGNAL", sigev_signo |-> 1, sigev_value |-> 10],
      [sigev_notify |-> "SIGEV_SIGNAL", sigev_signo |-> SIGRTMAX, sigev_value |-> 20],
      [sigev_notify |-> "SIGEV_NONE", sigev_signo |-> 1, sigev_value |-> 10],
      [sigev_notify |-> "SIGEV_SIGNAL", sigev_signo |-> 0, sigev_value |-> 10],
      [sigev_notify |-> "SIGEV_SIGNAL", sigev_signo |-> SIGRTMAX + 1, sigev_value |-> 10],
      [sigev_notify |-> "SIGEV_THREAD", sigev_signo |-> 1, sigev_value |-> 10] }

\* --------------------------------------------------- nucleus queues (queue.h)

\* getq / getpq: the head leaves the queue.
QHead(q) == IF q = <<>> THEN NULL ELSE Head(q)

\* A getpq that leaves the head on the queue.
QRestKept(q) == q

\* getq / getpq: what stays on the queue.
QRest(q) == IF q = <<>> THEN <<>> ELSE Tail(q)

\* prependq
prependq(q, h) == <<h>> \o q

\* appendq
appendq(q, h) == Append(q, h)

\* removeq
removeq(q, h) == SelectSeq(q, LAMBDA x : x # h)

\* The scan of insertpqf on a queue ordered xnqueue_down: from the tail
\* towards the head, past every holder of a priority below prio.
RECURSIVE PqScan(_, _, _)
PqScan(q, i, prio) ==
    IF i > 0 /\ prio > q[i].prio THEN PqScan(q, i - 1, prio) ELSE i

\* insertpqf: holder goes behind the holder the scan stopped at.
insertpqf(q, holder) ==
    LET i == PqScan(q, Len(q), holder.prio)
    IN  SubSeq(q, 1, i) \o <<holder>> \o SubSeq(q, i + 1, Len(q))

\* countpq
countpq(q) == Len(q)

\* ------------------------------------------------ nucleus synch (xnsynch)

\* The scan of the XNSYNCH_PRIO pend queue: a sleeper goes behind the last
\* sleeper of a priority not below its own.
RECURSIVE PendScan(_, _, _)
PendScan(q, i, t) ==
    IF i > 0 /\ ThreadPrio(t) > ThreadPrio(q[i]) THEN PendScan(q, i - 1, t) ELSE i

\* xnsynch_sleep_on: the caller joins the pend queue.
PendInsert(q, t) ==
    LET i == PendScan(q, Len(q), t)
    IN  SubSeq(q, 1, i) \o <<t>> \o SubSeq(q, i + 1, Len(q))

\* xnsynch_wakeup_one_sleeper: the head of the pend queue, NULL when empty.
xnsynch_wakeup_one_sleeper(q) == QHead(q)

\* ------------------------------------------------------------------ state

VARIABLES
    registry,   \* name -> the queue object registered under it, 0 for none
    mq,         \* queue object -> its fields (struct pse51_mq)
    mqq,        \* pse51_mqq, the list of the live queues
    desc,       \* descriptor number -> the queue it refers to and its flags
    pc,         \* thread -> where it stands in the call it is making
    loc,        \* thread -> the arguments and locals of that call
    out         \* what the last step returned to its caller and delivered

vars == <<registry, mq, mqq, desc, pc, loc, out>>

\* A word of heap memory nobody has written to: a null pointer, the address
\* of a thread, or anything else.
HeapWords == {NULL, "p1", "junk"}

\* The siginfo nobody has written to: si_code tells it from a registered one.
NoSi == [si_signo |-> 0, si_code |-> "junk", si_value |-> 0]
NoAttr == [mq_maxmsg |-> 0, mq_msgsize |-> 0]
NoFlags == Flags(O_RDONLY, {})

\* A queue object that is not allocated. registered is a history field: the
\* thread whose mq_notify registration is in force, NULL for none.
FreeMq ==
    [state |-> "free", refcount |-> 0, attr |-> NoAttr, avail |-> <<>>,
     queued |-> <<>>, receivers |-> <<>>, senders |-> <<>>, target |-> NULL,
     si |-> NoSi, registered |-> NULL, name |-> ""]

NoDesc == [mq |-> 0, flags |-> NoFlags]

NoLoc ==
    [fd |-> 0, mq |-> 0, buffer |-> <<>>, len |-> 0, prio |-> 0, priop |-> FALSE,
     abs_to |-> "XN_INFINITE", info |-> "none", used |-> 0, name |-> "",
     oflags |-> NoFlags, attr |-> NoAttr, err |-> OK]

NoSig == [thr |-> NULL, si |-> NoSi]
NoAttrOut == [mq_maxmsg |-> 0, mq_msgsize |-> 0, mq_flags |-> NoFlags, mq_curmsgs |-> 0]

NoOut ==
    [op |-> "none", rc |-> OK, len |-> 0, data |-> <<>>, prio |-> -1,
     attr |-> NoAttrOut, sig |-> NoSig]

\* The record a call of op leaves when it returns rc ("sleep": the caller
\* went to sleep in it, "init": it dropped nklock to initialise the queue).
Ret(t, op, rc) == [NoOut EXCEPT !.op = op, !.rc = rc]

\* pse51_mq_pkg_init
Init ==
    /\ registry = [n \in Names |-> 0]
    /\ mq = [q \in Mqs |-> FreeMq]
    /\ mqq = <<>>
    /\ desc = [fd \in Fds |-> NoDesc]
    /\ pc = [t \in Threads |-> "idle"]
    /\ loc = [t \in Threads |-> NoLoc]
    /\ out = NoOut

\* --------------------------------------------------------- the message pool

\* A pse51_mq_msg_alloc that takes the slot at the tail of the free list,
\* the one freed longest ago.
msg_alloc_tail(avail) ==
    [ok |-> avail # <<>>, slot |-> IF avail = <<>> THEN -1 ELSE avail[Len(avail)],
     avail |-> IF avail = <<>> THEN <<>> ELSE SubSeq(avail, 1, Len(avail) - 1)]

\* pse51_mq_msg_alloc: the head of the free list, or none.
pse51_mq_msg_alloc(avail) ==
    [ok |-> avail # <<>>, slot |-> IF avail = <<>> THEN -1 ELSE Head(avail),
     avail |-> QRest(avail)]

\* A pse51_mq_msg_free that forgets the slot it is handed.
msg_free_leak(avail, slot) == avail

\* pse51_mq_msg_free: the slot goes to the head of the free list.
pse51_mq_msg_free(avail, slot) == prependq(avail, slot)

\* The loop of pse51_mq_init that fills the pool with slots 0 .. n-1.
RECURSIVE FillPool(_, _, _)
FillPool(avail, i, n) ==
    IF i < n THEN FillPool(pse51_mq_msg_free(avail, i), i + 1, n) ELSE avail

\* A pse51_mq_init that takes mq_maxmsg as it comes.
MqInitErrAnyMaxmsg(t, attr, memok) ==
    IF ~xnpod_root_p(t) THEN EPERM
    ELSE IF ~memok THEN ENOSPC
    ELSE OK

\* pse51_mq_init: the error, if any.
MqInitErr(t, attr, memok) ==
    IF ~xnpod_root_p(t) THEN EPERM
    ELSE IF attr.mq_maxmsg = 0 THEN EINVAL
    ELSE IF ~memok THEN ENOSPC
    ELSE OK

\* pse51_mq_init: the fields it sets; target and si keep what the heap held.
pse51_mq_init(m, attr) ==
    [m EXCEPT !.queued = <<>>, !.receivers = <<>>, !.senders = <<>>,
              !.avail = FillPool(<<>>, 0, attr.mq_maxmsg), !.attr = attr]

\* ------------------------------------------------------------ descriptors

\* A descriptor look-up that goes through the name of the queue.
DescOkByName(fd) == fd \in Fds /\ desc[fd].mq # 0 /\ \E n \in Names : registry[n] = desc[fd].mq

\* pse51_desc_get: the descriptor is one of a queue.
DescOk(fd) == fd \in Fds /\ desc[fd].mq # 0

\* pse51_desc_create: the lowest free descriptor number, 0 when all are taken.
FreeFd ==
    IF \E fd \in Fds : desc[fd].mq = 0
    THEN CHOOSE fd \in Fds : desc[fd].mq = 0 /\ \A g \in Fds : desc[g].mq = 0 => fd <= g
    ELSE 0

\* xnmalloc: the lowest free queue object, 0 when the heap is exhausted.
FreeObj ==
    IF \E q \in Mqs : mq[q].state = "free"
    THEN CHOOSE q \in Mqs : mq[q].state = "free" /\ \A r \in Mqs : mq[r].state = "free" => q <= r
    ELSE 0

\* The attributes mq_getattr and mq_setattr report for a descriptor.
AttrOf(fd) ==
    LET m == mq[desc[fd].mq]
    IN  [mq_maxmsg |-> m.attr.mq_maxmsg, mq_msgsize |-> m.attr.mq_msgsize,
         mq_flags |-> desc[fd].flags, mq_curmsgs |-> countpq(m.queued)]

\* mq_getattr
MqGetattr(t, fd) ==
    /\ pc[t] = "idle"
    /\ out' = IF DescOk(fd)
              THEN [Ret(t, "mq_getattr", OK) EXCEPT !.attr = AttrOf(fd)]
              ELSE Ret(t, "mq_getattr", EBADF)
    /\ UNCHANGED <<registry, mq, mqq, desc, pc, loc>>

\* mq_setattr
MqSetattr(t, fd, mq_flags, oattr) ==
    /\ pc[t] = "idle"
    /\ IF DescOk(fd)
       THEN /\ desc' = [desc EXCEPT ![fd].flags = SetattrFlags(desc[fd].flags, mq_flags)]
            /\ out' = [Ret(t, "mq_setattr", OK) EXCEPT
                           !.attr = IF oattr THEN AttrOf(fd) ELSE NoAttrOut]
       ELSE /\ out' = Ret(t, "mq_setattr", EBADF)
            /\ UNCHANGED desc
    /\ UNCHANGED <<registry, mq, mqq, pc, loc>>

\* ------------------------------------------------------ the send engine

\* Tests that let every access mode through.
SendPermAny(flags) == TRUE
RcvPermAny(flags) == TRUE

\* The access modes pse51_mq_trysend and pse51_mq_tryrcv let through.
SendPerm(flags) == PermsOf(flags) = O_WRONLY \/ PermsOf(flags) = O_RDWR
RcvPerm(flags) == PermsOf(flags) = O_RDONLY \/ PermsOf(flags) = O_RDWR

\* A holder that is queued without the priority of its message.
HolderNoPrio(slot, buffer, len, prio) ==
    [slot |-> slot, prio |-> 0, len |-> len, data |-> SubSeq(buffer, 1, len)]

\* The message pse51_mq_trysend writes into a slot: memcpy of len bytes, the
\* length, and the priority the holder is queued with.
Holder(slot, buffer, len, prio) ==
    [slot |-> slot, prio |-> prio, len |-> len, data |-> SubSeq(buffer, 1, len)]

\* A test before pse51_sigqueue_inner that forgets the pending reader.
NotifyDueNoReader(reader, target, queued) == target # NULL /\ countpq(queued) = 1

\* The test before pse51_sigqueue_inner: first message, no pending reader,
\* and a target.
NotifyDue(reader, target, queued) ==
    reader = NULL /\ target # NULL /\ countpq(queued) = 1

\* A notification that leaves the target in place.
TargetKept(target, fire) == target

\* mq->target after the test: NULL once the signal is queued.
TargetAfter(target, fire) == IF fire THEN NULL ELSE target

\* A direct hand-off that forgets the priority.
DirectCopyNoPrio(l, buffer, len, prio) ==
    [l EXCEPT !.buffer = SubSeq(buffer, 1, len), !.len = len, !.used = 1]

\* What the direct hand-off writes through the pse51_direct_msg_t of the
\* woken reader.
DirectCopy(l, buffer, len, prio) ==
    [l EXCEPT !.buffer = SubSeq(buffer, 1, len), !.len = len,
              !.prio = IF l.priop THEN prio ELSE @, !.used = 1]

NoSend(rc, m) == [rc |-> rc, mq |-> m, reader |-> NULL, direct |-> FALSE, sig |-> NoSig]

\* A pse51_mq_trysend that does not compare len with mq_msgsize.
TrySendAnyLen(q, flags, buffer, len, prio) ==
    LET m == mq[q]
        reader == xnsynch_wakeup_one_sleeper(m.receivers)
        thread == thread2pthread(reader)
        woken == [m EXCEPT !.receivers = QRest(@)]
        a == pse51_mq_msg_alloc(m.avail)
        queued == insertpqf(m.queued, Holder(a.slot, buffer, len, prio))
        fire == NotifyDue(reader, m.target, queued)
    IN  IF ~SendPerm(flags) THEN NoSend(EPERM, m)
        ELSE IF thread # NULL
        THEN [rc |-> OK, mq |-> woken, reader |-> reader, direct |-> TRUE, sig |-> NoSig]
        ELSE IF ~a.ok
        THEN [rc |-> EAGAIN, mq |-> woken, reader |-> reader, direct |-> FALSE, sig |-> NoSig]
        ELSE [rc |-> OK,
              mq |-> [woken EXCEPT !.avail = a.avail, !.queued = queued,
                                   !.target = TargetAfter(@, fire),
                                   !.registered = TargetAfter(@, fire)],
              reader |-> reader, direct |-> FALSE,
              sig |-> IF fire THEN [thr |-> m.target, si |-> m.si] ELSE NoSig]

\* pse51_mq_trysend on queue q through a descriptor with these flags: the
\* error, the queue afterwards, the reader it woke, whether it handed the
\* message over directly, and the signal it queued.
TrySend(q, flags, buffer, len, prio) ==
    LET m == mq[q]
        reader == xnsynch_wakeup_one_sleeper(m.receivers)
        thread == thread2pthread(reader)
        woken == [m EXCEPT !.receivers = QRest(@)]
        a == pse51_mq_msg_alloc(m.avail)
        queued == insertpqf(m.queued, Holder(a.slot, buffer, len, prio))
        fire == NotifyDue(reader, m.target, queued)
    IN  IF ~SendPerm(flags) THEN NoSend(EPERM, m)
        ELSE IF len > m.attr.mq_msgsize THEN NoSend(EMSGSIZE, m)
        ELSE IF thread # NULL
        THEN [rc |-> OK, mq |-> woken, reader |-> reader, direct |-> TRUE, sig |-> NoSig]
        ELSE IF ~a.ok
        THEN [rc |-> EAGAIN, mq |-> woken, reader |-> reader, direct |-> FALSE, sig |-> NoSig]
        ELSE [rc |-> OK,
              mq |-> [woken EXCEPT !.avail = a.avail, !.queued = queued,
                                   !.target = TargetAfter(@, fire),
                                   !.registered = TargetAfter(@, fire)],
              reader |-> reader, direct |-> FALSE,
              sig |-> IF fire THEN [thr |-> m.target, si |-> m.si] ELSE NoSig]

\* A loop that does not look at O_NONBLOCK.
AfterTryBlocking(t, rc, flags, abs_to, expired) ==
    IF rc # EAGAIN THEN rc
    ELSE IF xnpod_unblockable_p(t) THEN EPERM
    ELSE IF abs_to # "XN_INFINITE" /\ expired THEN ETIMEDOUT
    ELSE "sleep"

\* What one pass of the loop of pse51_mq_timedsend_inner or
\* pse51_mq_timedrcv_inner does when the attempt returned rc: "sleep", or
\* the error it returns. expired: the deadline has passed
\* (clock_adjust_timeout).
AfterTry(t, rc, flags, abs_to, expired) ==
    IF rc # EAGAIN THEN rc
    ELSE IF O_NONBLOCK \in flags.bits THEN EAGAIN
    ELSE IF xnpod_unblockable_p(t) THEN EPERM
    ELSE IF abs_to # "XN_INFINITE" /\ expired THEN ETIMEDOUT
    ELSE "sleep"

SendOp(abs_to) == IF abs_to = "XN_INFINITE" THEN "mq_send" ELSE "mq_timedsend"
RcvOp(abs_to) == IF abs_to = "XN_INFINITE" THEN "mq_receive" ELSE "mq_timedreceive"

\* One pass of the loop of pse51_mq_timedsend_inner, up to the return or to
\* xnsynch_sleep_on.
SendIter(t, fd, buffer, len, prio, abs_to, expired) ==
    IF ~DescOk(fd)
    THEN /\ out' = Ret(t, SendOp(abs_to), EBADF)
         /\ pc' = [pc EXCEPT ![t] = "idle"]
         /\ loc' = [loc EXCEPT ![t] = NoLoc]
         /\ UNCHANGED <<registry, mq, mqq, desc>>
    ELSE LET q == desc[fd].mq
             r == TrySend(q, desc[fd].flags, buffer, len, prio)
             rc == AfterTry(t, r.rc, desc[fd].flags, abs_to, expired)
             sleeps == rc = "sleep"
         IN  /\ mq' = [mq EXCEPT ![q] =
                          IF sleeps THEN [r.mq EXCEPT !.senders = PendInsert(@, t)] ELSE r.mq]
             /\ pc' = [x \in Threads |->
                          IF x = t THEN (IF sleeps THEN "snd_sleep" ELSE "idle")
                          ELSE IF x = r.reader THEN "rcv_woken" ELSE pc[x]]
             /\ loc' = [x \in Threads |->
                          IF x = t
                          THEN (IF sleeps
                                THEN [NoLoc EXCEPT !.fd = fd, !.mq = q, !.buffer = buffer,
                                                   !.len = len, !.prio = prio, !.abs_to = abs_to]
                                ELSE NoLoc)
                          ELSE IF x = r.reader /\ r.direct
                          THEN DirectCopy(loc[x], buffer, len, prio)
                          ELSE loc[x]]
             /\ out' = [Ret(t, SendOp(abs_to), rc) EXCEPT !.sig = r.sig]
             /\ UNCHANGED <<registry, mqq, desc>>

\* (unsigned) x > k for an int x and 0 <= k < 2^31: a negative x converts to
\* a value of 2^31 or more.
UnsignedGt(x, k) == x < 0 \/ x > k

\* mq_send
MqSend(t, fd, buffer, len, prio) ==
    /\ pc[t] = "idle"
    /\ SendIter(t, fd, buffer, len, prio, "XN_INFINITE", FALSE)

\* mq_timedsend
MqTimedsend(t, fd, buffer, len, prio, tv_nsec, deadline) ==
    /\ pc[t] = "idle"
    /\ IF UnsignedGt(tv_nsec, ONE_BILLION)
       THEN /\ out' = Ret(t, "mq_timedsend", EINVAL)
            /\ UNCHANGED <<registry, mq, mqq, desc, pc, loc>>
       ELSE SendIter(t, fd, buffer, len, prio, "timed", deadline = "past")

\* A sender that does not look at XNTIMEO when it wakes.
SendWakeRcNoTimeo(info) ==
    IF info = "XNBREAK" THEN EINTR
    ELSE IF info = "XNRMID" THEN EBADF
    ELSE "again"

\* The tests of the wake-up flags in pse51_mq_timedsend_inner: the error
\* the sender returns, or "again" for the next pass of the loop.
SendWakeRc(info) ==
    IF info = "XNBREAK" THEN EINTR
    ELSE IF info = "XNTIMEO" THEN ETIMEDOUT
    ELSE IF info = "XNRMID" THEN EBADF
    ELSE "again"

\* A resumed sender that takes the descriptor it went to sleep with for
\* valid still, and reports its message sent when the descriptor is gone.
SendResumeTrusting(t, expired) ==
    /\ pc[t] = "snd_woken"
    /\ LET l == loc[t]
           rc == SendWakeRc(l.info)
       IN  IF rc # "again" \/ ~DescOk(l.fd)
           THEN /\ out' = Ret(t, SendOp(l.abs_to), IF rc # "again" THEN rc ELSE OK)
                /\ pc' = [pc EXCEPT ![t] = "idle"]
                /\ loc' = [loc EXCEPT ![t] = NoLoc]
                /\ UNCHANGED <<registry, mq, mqq, desc>>
           ELSE SendIter(t, l.fd, l.buffer, l.len, l.prio, l.abs_to, expired)

\* pse51_mq_timedsend_inner after xnsynch_sleep_on returned: the wake-up
\* flags, then the next pass of the loop.
SendResume(t, expired) ==
    /\ pc[t] = "snd_woken"
    /\ LET l == loc[t]
           rc == SendWakeRc(l.info)
       IN  IF rc # "again"
           THEN /\ out' = Ret(t, SendOp(l.abs_to), rc)
                /\ pc' = [pc EXCEPT ![t] = "idle"]
                /\ loc' = [loc EXCEPT ![t] = NoLoc]
                /\ UNCHANGED <<registry, mq, mqq, desc>>
           ELSE SendIter(t, l.fd, l.buffer, l.len, l.prio, l.abs_to, expired)

\* --------------------------------------------------- the receive engine

NoRcv(rc, m) ==
    [rc |-> rc, mq |-> m, len |-> 0, data |-> <<>>, prio |-> -1, sender |-> NULL]

\* pse51_mq_tryrcv on queue q through a descriptor with these flags, into a
\* buffer of len bytes: the error, the queue afterwards, what it wrote to
\* *lenp, the buffer and *priop, and the sender it woke.
TryRcv(q, flags, len, priop) ==
    LET m == mq[q]
        holder == Head(m.queued)
        sender == xnsynch_wakeup_one_sleeper(m.senders)
    IN  IF ~RcvPerm(flags) THEN NoRcv(EPERM, m)
        ELSE IF len < m.attr.mq_msgsize THEN NoRcv(EMSGSIZE, m)
        ELSE IF m.queued = <<>> THEN NoRcv(EAGAIN, m)
        ELSE [rc |-> OK,
              mq |-> [m EXCEPT !.queued = QRest(@),
                               !.avail = pse51_mq_msg_free(@, holder.slot),
                               !.senders = QRest(@)],
              len |-> holder.len, data |-> holder.data,
              prio |-> IF priop THEN holder.prio ELSE -1,
              sender |-> sender]

\* One pass of the loop of pse51_mq_timedrcv_inner, up to the return or to
\* xnsynch_sleep_on. len is *lenp, the size of the caller's buffer.
RcvIter(t, fd, len, priop, abs_to, expired) ==
    IF ~DescOk(fd)
    THEN /\ out' = Ret(t, RcvOp(abs_to), EBADF)
         /\ pc' = [pc EXCEPT ![t] = "idle"]
         /\ loc' = [loc EXCEPT ![t] = NoLoc]
         /\ UNCHANGED <<registry, mq, mqq, desc>>
    ELSE LET q == desc[fd].mq
             r == TryRcv(q, desc[fd].flags, len, priop)
             rc == AfterTry(t, r.rc, desc[fd].flags, abs_to, expired)
             sleeps == rc = "sleep"
         IN  /\ mq' = [mq EXCEPT ![q] =
                          IF sleeps THEN [r.mq EXCEPT !.receivers = PendInsert(@, t)] ELSE r.mq]
             /\ pc' = [x \in Threads |->
                          IF x = t THEN (IF sleeps THEN "rcv_sleep" ELSE "idle")
                          ELSE IF x = r.sender THEN "snd_woken" ELSE pc[x]]
             /\ loc' = [loc EXCEPT ![t] =
                          IF sleeps
                          THEN [NoLoc EXCEPT !.fd = fd, !.mq = q, !.len = len, !.prio = -1,
                                             !.priop = priop, !.abs_to = abs_to]
                          ELSE NoLoc]
             /\ out' = [Ret(t, RcvOp(abs_to), rc) EXCEPT
                            !.len = r.len, !.data = r.data, !.prio = r.prio]
             /\ UNCHANGED <<registry, mqq, desc>>

\* mq_receive
MqReceive(t, fd, len, priop) ==
    /\ pc[t] = "idle"
    /\ RcvIter(t, fd, len, priop, "XN_INFINITE", FALSE)

\* mq_timedreceive
MqTimedreceive(t, fd, len, priop, tv_nsec, deadline) ==
    /\ pc[t] = "idle"
    /\ IF UnsignedGt(tv_nsec, ONE_BILLION)
       THEN /\ out' = Ret(t, "mq_timedreceive", EINVAL)
            /\ UNCHANGED <<registry, mq, mqq, desc, pc, loc>>
       ELSE RcvIter(t, fd, len, priop, "timed", deadline = "past")

\* A receiver that does not look at XNRMID when it wakes.
RcvWakeRcNoRmid(direct, used, info) ==
    IF direct /\ used = 1 THEN OK
    ELSE IF info = "XNTIMEO" THEN ETIMEDOUT
    ELSE IF info = "XNBREAK" THEN EINTR
    ELSE "again"

\* The tests of the hand-off slot and of the wake-up flags in
\* pse51_mq_timedrcv_inner: what the receiver returns, or "again" for the
\* next pass of the loop.
RcvWakeRc(direct, used, info) ==
    IF direct /\ used = 1 THEN OK
    ELSE IF info = "XNRMID" THEN EBADF
    ELSE IF info = "XNTIMEO" THEN ETIMEDOUT
    ELSE IF info = "XNBREAK" THEN EINTR
    ELSE "again"

\* A receiver that makes the next pass of the loop whatever woke it.
RcvResumeAlwaysRetries(t, expired) ==
    /\ pc[t] = "rcv_woken"
    /\ RcvIter(t, loc[t].fd, loc[t].len, loc[t].priop, loc[t].abs_to, expired)

\* pse51_mq_timedrcv_inner after xnsynch_sleep_on returned: the hand-off
\* slot, the wake-up flags, then the next pass of the loop.
RcvResume(t, expired) ==
    /\ pc[t] = "rcv_woken"
    /\ LET l == loc[t]
           direct == thread2pthread(t) # NULL
           rc == RcvWakeRc(direct, l.used, l.info)
       IN  IF rc = OK
           THEN /\ out' = [Ret(t, RcvOp(l.abs_to), OK) EXCEPT
                               !.len = l.len, !.data = l.buffer, !.prio = l.prio]
                /\ pc' = [pc EXCEPT ![t] = "idle"]
                /\ loc' = [loc EXCEPT ![t] = NoLoc]
                /\ UNCHANGED <<registry, mq, mqq, desc>>
           ELSE IF rc # "again"
           THEN /\ out' = Ret(t, RcvOp(l.abs_to), rc)
                /\ pc' = [pc EXCEPT ![t] = "idle"]
                /\ loc' = [loc EXCEPT ![t] = NoLoc]
                /\ UNCHANGED <<registry, mq, mqq, desc>>
           ELSE RcvIter(t, l.fd, l.len, l.priop, l.abs_to, expired)

\* ------------------------------------------------------- wake-up sources

\* The sleeper leaves the pend queue it is on and becomes ready with the
\* flag of the wake-up source in its state word. Of its locals only those
\* it still reads on the way out are kept.
WakeWith(t, flag) ==
    /\ pc[t] \in {"snd_sleep", "rcv_sleep"}
    /\ mq' = [mq EXCEPT ![loc[t].mq].senders = removeq(@, t),
                        ![loc[t].mq].receivers = removeq(@, t)]
    /\ pc' = [pc EXCEPT ![t] = IF pc[t] = "snd_sleep" THEN "snd_woken" ELSE "rcv_woken"]
    /\ loc' = [loc EXCEPT ![t] = [NoLoc EXCEPT !.fd = loc[t].fd, !.abs_to = loc[t].abs_to,
                                               !.info = flag]]
    /\ out' = NoOut
    /\ UNCHANGED <<registry, mqq, desc>>

\* The timer of a timed sleep fires.
Timeout(t) == loc[t].abs_to # "XN_INFINITE" /\ WakeWith(t, "XNTIMEO")

\* A signal breaks the sleep (xnpod_unblock_thread).
Unblock(t) == WakeWith(t, "XNBREAK")

\* --------------------------------------------------------------- mq_notify

NoEvp == [sigev_notify |-> "NULL", sigev_signo |-> 0, sigev_value |-> 0]

\* The sigevent mq_notify rejects: a mode other than SIGEV_SIGNAL and
\* SIGEV_NONE, or (unsigned) (sigev_signo - 1) > SIGRTMAX - 1.
EvpInvalid(evp) ==
    /\ evp # NoEvp
    /\ \/ (evp.sigev_notify # "SIGEV_SIGNAL" /\ evp.sigev_notify # "SIGEV_NONE")
       \/ UnsignedGt(evp.sigev_signo - 1, SIGRTMAX - 1)

\* A test that takes a queue without registration for somebody else's.
NotifyBusyUnlessOwn(target, thread) == target # thread

\* The registration belongs to somebody else.
NotifyBusy(target, thread) == target # NULL /\ target # thread

\* The sigevent asks to drop the registration.
EvpClears(evp) == evp = NoEvp \/ evp.sigev_notify = "SIGEV_NONE"

\* mq_notify
MqNotify(t, fd, evp) ==
    /\ pc[t] = "idle"
    /\ LET thread == pse51_current_thread(t)
           q == desc[fd].mq
           rc == IF EvpInvalid(evp) THEN EINVAL
                 ELSE IF thread = NULL THEN EPERM
                 ELSE IF ~DescOk(fd) THEN EBADF
                 ELSE IF NotifyBusy(mq[q].target, thread) THEN EBUSY
                 ELSE OK
       IN  /\ out' = Ret(t, "mq_notify", rc)
           /\ mq' = IF rc # OK THEN mq
                    ELSE IF EvpClears(evp)
                    THEN [mq EXCEPT ![q].target = NULL, ![q].registered = NULL]
                    ELSE [mq EXCEPT ![q].target = thread, ![q].registered = thread,
                                    ![q].si = [si_signo |-> evp.sigev_signo,
                                               si_code |-> "SI_MESGQ",
                                               si_value |-> evp.sigev_value]]
    /\ UNCHANGED <<registry, mqq, desc, pc, loc>>

\* ----------------------------------------------------------------- mq_open

\* The name of the queue object is in the registry.
Linked(q) == \E n \in Names : registry[n] = q

\* The descriptors of a queue object.
DescsOf(q) == {fd \in Fds : desc[fd].mq = q}

\* pse51_node_put, then pse51_node_removed_p: the reference count of the
\* node goes down by one; the node is removed when the count is 0 and the
\* name is out of the registry.
NodePut(m) == [m EXCEPT !.refcount = @ - 1]

\* A removed test that does not look at the reference count.
NodeRemovedUnlinked(m, linked) == ~linked

\* pse51_node_removed_p: no reference is left and the name is out of the
\* registry.
NodeRemoved(m, linked) == m.refcount = 0 /\ ~linked

\* An mq_open that keeps its reference when no descriptor is left.
GotMqKeepsRef(q, m, oflags) ==
    IF FreeFd = 0
    THEN [rc |-> EMFILE, fd |-> 0, desc |-> desc, m |-> m, removed |-> FALSE]
    ELSE [rc |-> OK, fd |-> FreeFd,
          desc |-> [desc EXCEPT ![FreeFd] = [mq |-> q, flags |-> OpenDescFlags(oflags)]],
          m |-> m, removed |-> FALSE]

\* mq_open from got_mq on, for queue q in the record m: pse51_desc_create
\* and pse51_desc_setflags, or, when no descriptor is left, pse51_node_put
\* and pse51_node_removed_p (err_put_mq).
GotMq(q, m, oflags) ==
    IF FreeFd = 0
    THEN [rc |-> EMFILE, fd |-> 0, desc |-> desc, m |-> NodePut(m),
          removed |-> NodeRemoved(NodePut(m), Linked(q))]
    ELSE [rc |-> OK, fd |-> FreeFd,
          desc |-> [desc EXCEPT ![FreeFd] = [mq |-> q, flags |-> OpenDescFlags(oflags)]],
          m |-> m, removed |-> FALSE]

\* A registry that hands out a node while its creation is in progress.
NodeReadyAtOnce(n) == FALSE

\* pse51_node_get finds the node of a creation in progress
\* (pse51_node_add_start without pse51_node_add_finished) and waits.
NodePartial(n) == n # 0 /\ mq[n].state = "partial"

\* mq_open up to the point where it returns, waits for a creation in
\* progress (pse51_node_get), or drops nklock to initialise the queue it
\* creates. memok: xnmalloc finds memory; addok: pse51_node_add_start
\* accepts the node; word: what that memory holds where the target field
\* lies. When pse51_node_add_start fails the call leaves by the label error,
\* which releases nklock and nothing else: the object xnmalloc returned
\* stays allocated with nothing referring to it (state "lost").
OpenIterAdd(t, name, oflags, attr, memok, addok, word) ==
    LET n == registry[name]
        fail(rc) == /\ out' = Ret(t, "mq_open", rc)
                    /\ pc' = [pc EXCEPT ![t] = "idle"]
                    /\ loc' = [loc EXCEPT ![t] = NoLoc]
                    /\ UNCHANGED <<registry, mq, mqq, desc>>
    IN  IF NodePartial(n)
        THEN /\ pc' = [pc EXCEPT ![t] = "open_wait"]
             /\ loc' = [loc EXCEPT ![t] =
                           [NoLoc EXCEPT !.name = name, !.oflags = oflags, !.attr = attr]]
             /\ out' = Ret(t, "mq_open", "sleep")
             /\ UNCHANGED <<registry, mq, mqq, desc>>
        ELSE IF n # 0 /\ {O_CREAT, O_EXCL} \subseteq oflags.bits THEN fail(EEXIST)
        ELSE IF n = 0 /\ O_CREAT \notin oflags.bits THEN fail(ENOENT)
        ELSE IF n # 0
        THEN LET g == GotMq(n, [mq[n] EXCEPT !.refcount = @ + 1], oflags)
             IN  /\ mq' = [mq EXCEPT ![n] = g.m]
                 /\ desc' = g.desc
                 /\ out' = Ret(t, "mq_open", IF g.removed THEN "destroy" ELSE g.rc)
                 /\ pc' = [pc EXCEPT ![t] = IF g.removed THEN "destroy" ELSE "idle"]
                 /\ loc' = [loc EXCEPT ![t] =
                               IF g.removed THEN [NoLoc EXCEPT !.mq = n, !.err = g.rc]
                               ELSE NoLoc]
                 /\ UNCHANGED <<registry, mqq>>
        ELSE IF FreeObj = 0 \/ ~memok THEN fail(ENOMEM)
        ELSE IF ~addok
        THEN /\ mq' = [mq EXCEPT ![FreeObj] = [FreeMq EXCEPT !.state = "lost", !.target = word]]
             /\ out' = Ret(t, "mq_open", EADDFAIL)
             /\ pc' = [pc EXCEPT ![t] = "idle"]
             /\ loc' = [loc EXCEPT ![t] = NoLoc]
             /\ UNCHANGED <<registry, mqq, desc>>
        ELSE /\ registry' = [registry EXCEPT ![name] = FreeObj]
             /\ mq' = [mq EXCEPT ![FreeObj] =
                          [FreeMq EXCEPT !.state = "partial", !.refcount = 2, !.target = word,
                                        !.name = name]]
             /\ pc' = [pc EXCEPT ![t] = "open_init"]
             /\ loc' = [loc EXCEPT ![t] =
                           [NoLoc EXCEPT !.name = name, !.oflags = oflags, !.attr = attr,
                                         !.mq = FreeObj]]
             /\ out' = Ret(t, "mq_open", "init")
             /\ UNCHANGED <<mqq, desc>>

\* The same where pse51_node_add_start accepts the node.
OpenIter(t, name, oflags, attr, memok, word) ==
    OpenIterAdd(t, name, oflags, attr, memok, TRUE, word)

\* mq_open, with the outcome of pse51_node_add_start as an input.
MqOpenAdd(t, name, oflags, attr, memok, addok, word) ==
    /\ pc[t] = "idle"
    /\ OpenIterAdd(t, name, oflags, attr, memok, addok, word)

\* mq_open
MqOpen(t, name, oflags, attr, memok, word) ==
    /\ pc[t] = "idle"
    /\ OpenIter(t, name, oflags, attr, memok, word)

\* The openers pse51_node_add_finished releases with status err.
Released(x, name) == pc[x] = "open_wait" /\ loc[x].name = name

\* mq_open of the creator from pse51_mq_init on. memok: xnarch_sysalloc
\* finds memory.
MqOpenInit(t, memok) ==
    /\ pc[t] = "open_init"
    /\ LET l == loc[t]
           q == l.mq
           err == MqInitErr(t, l.attr, memok)
           g == GotMq(q, pse51_mq_init([mq[q] EXCEPT !.state = "live"], l.attr), l.oflags)
           destroys == err = OK /\ g.removed
       IN  /\ pc' = [x \in Threads |->
                        IF x = t THEN (IF destroys THEN "destroy" ELSE "idle")
                        ELSE IF Released(x, l.name) THEN "open_woken" ELSE pc[x]]
           /\ loc' = [x \in Threads |->
                        IF x = t
                        THEN (IF destroys THEN [NoLoc EXCEPT !.mq = q, !.err = g.rc] ELSE NoLoc)
                        ELSE IF Released(x, l.name) THEN [loc[x] EXCEPT !.err = err]
                        ELSE loc[x]]
           /\ IF err # OK
              THEN /\ registry' = [registry EXCEPT ![l.name] = 0]
                   /\ mq' = [mq EXCEPT ![q] = FreeMq]
                   /\ out' = Ret(t, "mq_open", err)
                   /\ UNCHANGED <<mqq, desc>>
              ELSE /\ mq' = [mq EXCEPT ![q] = g.m]
                   /\ mqq' = appendq(mqq, q)
                   /\ desc' = g.desc
                   /\ out' = Ret(t, "mq_open", IF destroys THEN "destroy" ELSE g.rc)
                   /\ UNCHANGED registry

\* mq_open of an opener that waited for a creation to finish.
OpenResume(t, memok, word) ==
    /\ pc[t] = "open_woken"
    /\ IF loc[t].err # OK
       THEN /\ out' = Ret(t, "mq_open", loc[t].err)
            /\ pc' = [pc EXCEPT ![t] = "idle"]
            /\ loc' = [loc EXCEPT ![t] = NoLoc]
            /\ UNCHANGED <<registry, mq, mqq, desc>>
       ELSE OpenIter(t, loc[t].name, loc[t].oflags, loc[t].attr, memok, word)

\* ------------------------------------------------- mq_close and mq_unlink

\* A destruction that leaves the queue on pse51_mqq.
DestroyMqqKept(l, q) == l

\* pse51_mq_destroy: removeq(&pse51_mqq, &mq->link).
DestroyMqq(l, q) == removeq(l, q)

\* The threads xnsynch_destroy finds asleep on the two wait queues of m.
Sleepers(m) ==
    {m.senders[i] : i \in 1..Len(m.senders)} \cup {m.receivers[i] : i \in 1..Len(m.receivers)}

\* An mq_close that destroys the queue before it releases nklock.
MqCloseDestroysLocked(t, fd) ==
    /\ pc[t] = "idle"
    /\ IF ~xnpod_root_p(t)
       THEN /\ out' = Ret(t, "mq_close", EPERM)
            /\ UNCHANGED <<registry, mq, mqq, desc, pc, loc>>
       ELSE IF ~DescOk(fd)
       THEN /\ out' = Ret(t, "mq_close", EBADF)
            /\ UNCHANGED <<registry, mq, mqq, desc, pc, loc>>
       ELSE LET q == desc[fd].mq
                m == NodePut(mq[q])
                gone == NodeRemoved(m, Linked(q))
                flushed == IF gone THEN Sleepers(m) ELSE {}
            IN  /\ desc' = [desc EXCEPT ![fd] = NoDesc]
                /\ mq' = [mq EXCEPT ![q] = IF gone THEN FreeMq ELSE m]
                /\ mqq' = IF gone THEN DestroyMqq(mqq, q) ELSE mqq
                /\ pc' = [x \in Threads |->
                             IF x \in flushed
                             THEN (IF pc[x] = "snd_sleep" THEN "snd_woken" ELSE "rcv_woken")
                             ELSE pc[x]]
                /\ loc' = [x \in Threads |->
                             IF x \in flushed
                             THEN [NoLoc EXCEPT !.fd = loc[x].fd, !.abs_to = loc[x].abs_to,
                                                !.info = "XNRMID"]
                             ELSE loc[x]]
                /\ out' = Ret(t, "mq_close", OK)
                /\ UNCHANGED registry

\* mq_close up to its return or to the release of nklock before
\* pse51_mq_destroy.
MqClose(t, fd) ==
    /\ pc[t] = "idle"
    /\ IF ~xnpod_root_p(t)
       THEN /\ out' = Ret(t, "mq_close", EPERM)
            /\ UNCHANGED <<registry, mq, mqq, desc, pc, loc>>
       ELSE IF ~DescOk(fd)
       THEN /\ out' = Ret(t, "mq_close", EBADF)
            /\ UNCHANGED <<registry, mq, mqq, desc, pc, loc>>
       ELSE LET q == desc[fd].mq
                m == NodePut(mq[q])
            IN  /\ desc' = [desc EXCEPT ![fd] = NoDesc]
                /\ mq' = [mq EXCEPT ![q] = m]
                /\ IF NodeRemoved(m, Linked(q))
                   THEN /\ pc' = [pc EXCEPT ![t] = "destroy"]
                        /\ loc' = [loc EXCEPT ![t] = [NoLoc EXCEPT !.mq = q]]
                        /\ out' = Ret(t, "mq_close", "destroy")
                   ELSE /\ out' = Ret(t, "mq_close", OK)
                        /\ UNCHANGED <<pc, loc>>
                /\ UNCHANGED <<registry, mqq>>

\* An mq_unlink that returns without a look at pse51_node_removed_p.
MqUnlinkNoDestroy(t, name) ==
    /\ pc[t] = "idle"
    /\ IF ~xnpod_root_p(t)
       THEN /\ out' = Ret(t, "mq_unlink", EPERM)
            /\ UNCHANGED <<registry, mq, mqq, desc, pc, loc>>
       ELSE IF registry[name] = 0
       THEN /\ out' = Ret(t, "mq_unlink", ENOENT)
            /\ UNCHANGED <<registry, mq, mqq, desc, pc, loc>>
       ELSE /\ registry' = [registry EXCEPT ![name] = 0]
            /\ mq' = [mq EXCEPT ![registry[name]] = NodePut(@)]
            /\ out' = Ret(t, "mq_unlink", OK)
            /\ UNCHANGED <<mqq, desc, pc, loc>>

\* mq_unlink up to its return or to the release of nklock before
\* pse51_mq_destroy. pse51_node_remove takes the name out of the registry
\* and with it the reference the name holds.
MqUnlink(t, name) ==
    /\ pc[t] = "idle"
    /\ IF ~xnpod_root_p(t)
       THEN /\ out' = Ret(t, "mq_unlink", EPERM)
            /\ UNCHANGED <<registry, mq, mqq, desc, pc, loc>>
       ELSE IF registry[name] = 0
       THEN /\ out' = Ret(t, "mq_unlink", ENOENT)
            /\ UNCHANGED <<registry, mq, mqq, desc, pc, loc>>
       ELSE LET q == registry[name]
                m == NodePut(mq[q])
            IN  /\ registry' = [registry EXCEPT ![name] = 0]
                /\ mq' = [mq EXCEPT ![q] = m]
                /\ IF NodeRemoved(m, FALSE)
                   THEN /\ pc' = [pc EXCEPT ![t] = "destroy"]
                        /\ loc' = [loc EXCEPT ![t] = [NoLoc EXCEPT !.mq = q, !.name = name]]
                        /\ out' = Ret(t, "mq_unlink", "destroy")
                   ELSE /\ out' = Ret(t, "mq_unlink", OK)
                        /\ UNCHANGED <<pc, loc>>
                /\ UNCHANGED <<mqq, desc>>

\* mq_close, mq_unlink or the err_put_mq path of mq_open from
\* pse51_mq_destroy on: the sleepers of both wait queues are readied with
\* XNRMID, the queue leaves pse51_mqq, the pool and the queue object are
\* freed, and the call returns 0, or the error of mq_open.
MqDestroy(t) ==
    /\ pc[t] = "destroy"
    /\ LET q == loc[t].mq
           flushed == Sleepers(mq[q])
       IN  /\ pc' = [x \in Threads |->
                        IF x = t THEN "idle"
                        ELSE IF x \in flushed
                        THEN (IF pc[x] = "snd_sleep" THEN "snd_woken" ELSE "rcv_woken")
                        ELSE pc[x]]
           /\ loc' = [x \in Threads |->
                        IF x = t THEN NoLoc
                        ELSE IF x \in flushed
                        THEN [NoLoc EXCEPT !.fd = loc[x].fd, !.abs_to = loc[x].abs_to,
                                           !.info = "XNRMID"]
                        ELSE loc[x]]
           /\ mqq' = DestroyMqq(mqq, q)
           /\ mq' = [mq EXCEPT ![q] = FreeMq]
           /\ out' = IF loc[t].err # OK THEN Ret(t, "mq_open", loc[t].err)
                     ELSE Ret(t, IF loc[t].name = "" THEN "mq_close" ELSE "mq_unlink", OK)
           /\ UNCHANGED <<registry, desc>>

\* ------------------------------------------------------ pse51_mq_pkg_cleanup

\* One pass of the loop of pse51_mq_pkg_cleanup, run in the root context
\* when the package is unloaded: the queue at the head of pse51_mqq has its
\* name taken out of the registry (pse51_node_remove by name, which finds
\* whatever queue is registered under that name) and is destroyed and freed;
\* with pse51_mqq empty the loop ends. The descriptors are left as they are.
PkgCleanup ==
    /\ pc["root"] \in {"idle", "cleanup"}
    /\ IF mqq = <<>>
       THEN /\ pc' = [pc EXCEPT !["root"] = "down"]
            /\ out' = Ret("root", "pkg_cleanup", OK)
            /\ UNCHANGED <<registry, mq, mqq, desc, loc>>
       ELSE LET q == Head(mqq)
                name == mq[q].name
                n == registry[name]
                flushed == Sleepers(mq[q])
            IN  /\ registry' = [registry EXCEPT ![name] = 0]
                /\ mq' = [x \in Mqs |->
                             IF x = q THEN FreeMq
                             ELSE IF x = n THEN NodePut(mq[x])
                             ELSE mq[x]]
                /\ mqq' = DestroyMqq(mqq, q)
                /\ pc' = [x \in Threads |->
                             IF x = "root" THEN "cleanup"
                             ELSE IF x \in flushed
                             THEN (IF pc[x] = "snd_sleep" THEN "snd_woken" ELSE "rcv_woken")
                             ELSE pc[x]]
                /\ loc' = [x \in Threads |->
                             IF x \in flushed
                             THEN [NoLoc EXCEPT !.fd = loc[x].fd, !.abs_to = loc[x].abs_to,
                                                !.info = "XNRMID"]
                             ELSE loc[x]]
                /\ out' = Ret("root", "pkg_cleanup", "destroy")
                /\ UNCHANGED desc

\* ---------------------------------------------------------- specification

\* The engine: the root context creates a queue of up to MaxMsgs slots
\* read-write; the root context, a POSIX skin thread and a thread of another
\* skin send to it and receive from it, sleeping when they must and may,
\* interrupted in their sleep, and register for notification.
EngineThreads == {"root", "p1", "k1"}
EngineOpens == {Flags(O_RDWR, {O_CREAT, O_EXCL})}
EngineAttrs == [mq_maxmsg : 1..MaxMsgs, mq_msgsize : {2}]
EngineMsgs == { [buffer |-> <<1>>, len |-> 1, prio |-> 0],
                [buffer |-> <<2, 3>>, len |-> 2, prio |-> 1] }
EngineFds == {1}
EngineSetFlags == {Flags(O_RDWR, {}), Flags(O_RDWR, {O_NONBLOCK})}
EngineEvps == { [sigev_notify |-> "SIGEV_SIGNAL", sigev_signo |-> 1, sigev_value |-> 10],
                [sigev_notify |-> "SIGEV_NONE", sigev_signo |-> 1, sigev_value |-> 10],
                NoEvp }

Next ==
    \/ \E name \in Names, oflags \in EngineOpens, attr \in EngineAttrs,
          memok \in BOOLEAN, word \in HeapWords :
          MqOpen("root", name, oflags, attr, memok, word)
    \/ \E memok \in BOOLEAN : MqOpenInit("root", memok)
    \/ \E t \in EngineThreads, fd \in EngineFds : MqGetattr(t, fd)
    \/ \E t \in EngineThreads, fd \in EngineFds, m \in EngineMsgs :
          MqSend(t, fd, m.buffer, m.len, m.prio)
    \/ \E t \in EngineThreads : SendResume(t, FALSE)
    \/ \E t \in EngineThreads, fd \in EngineFds : MqReceive(t, fd, 2, TRUE)
    \/ \E t \in EngineThreads : RcvResume(t, FALSE)
    \/ \E t \in EngineThreads : Unblock(t)
    \/ \E t \in EngineThreads, fd \in EngineFds, evp \in EngineEvps : MqNotify(t, fd, evp)

Spec == Init /\ [][Next]_vars

\* The pool: every service of the package on one queue of up to MaxMsgs
\* slots. The root context, which never sleeps, calls mq_send and
\* mq_receive; all three callers use the timed calls, sleep in them, time
\* out and are interrupted; descriptors are switched between blocking and
\* non-blocking, and notifications are registered and fired.
PoolMsgs == {[buffer |-> <<1>>, len |-> 1, prio |-> 0]}
PoolNsecs == {0, ONE_BILLION + 1}

NextPool ==
    \/ \E name \in Names, oflags \in EngineOpens, attr \in EngineAttrs, word \in HeapWords :
          MqOpen("root", name, oflags, attr, TRUE, word)
    \/ MqOpenInit("root", TRUE)
    \/ \E t \in EngineThreads, fd \in EngineFds : MqGetattr(t, fd)
    \/ \E t \in EngineThreads, fd \in EngineFds, mq_flags \in EngineSetFlags :
          MqSetattr(t, fd, mq_flags, FALSE)
    \/ \E fd \in EngineFds, m \in PoolMsgs : MqSend("root", fd, m.buffer, m.len, m.prio)
    \/ \E fd \in EngineFds : MqReceive("root", fd, 2, TRUE)
    \/ \E t \in EngineThreads, fd \in EngineFds, m \in PoolMsgs, tv_nsec \in PoolNsecs,
          deadline \in Deadlines :
          MqTimedsend(t, fd, m.buffer, m.len, m.prio, tv_nsec, deadline)
    \/ \E t \in EngineThreads, fd \in EngineFds, tv_nsec \in PoolNsecs, deadline \in Deadlines :
          MqTimedreceive(t, fd, 2, TRUE, tv_nsec, deadline)
    \/ \E t \in EngineThreads, expired \in BOOLEAN : SendResume(t, expired)
    \/ \E t \in EngineThreads, expired \in BOOLEAN : RcvResume(t, expired)
    \/ \E t \in EngineThreads : Timeout(t)
    \/ \E t \in EngineThreads : Unblock(t)
    \/ \E t \in EngineThreads, fd \in EngineFds, evp \in EngineEvps : MqNotify(t, fd, evp)

SpecPool == Init /\ [][NextPool]_vars

\* The ordering: the root context alone creates a queue of MaxFifo slots of
\* one byte and, never blocking, sends the messages A/1, B/3, C/2 and D/3 in
\* any order and number and receives them.
MaxFifo == 4
FifoOpen == Flags(O_RDWR, {O_CREAT, O_EXCL})
FifoAttr == [mq_maxmsg |-> MaxFifo, mq_msgsize |-> 1]
MsgA == [buffer |-> <<65>>, len |-> 1, prio |-> 1]
MsgB == [buffer |-> <<66>>, len |-> 1, prio |-> 3]
MsgC == [buffer |-> <<67>>, len |-> 1, prio |-> 2]
MsgD == [buffer |-> <<68>>, len |-> 1, prio |-> 3]
FifoMsgs == {MsgA, MsgB, MsgC, MsgD}

NextFifo ==
    \/ \E name \in Names, word \in HeapWords :
          MqOpen("root", name, FifoOpen, FifoAttr, TRUE, word)
    \/ MqOpenInit("root", TRUE)
    \/ \E fd \in EngineFds, m \in FifoMsgs : MqSend("root", fd, m.buffer, m.len, m.prio)
    \/ \E fd \in EngineFds : MqReceive("root", fd, 1, TRUE)

SpecFifo == Init /\ [][NextFifo]_vars

\* The life of a queue: the root context opens the name, with and without
\* O_CREAT, up to twice at a time, closes the descriptors and unlinks the
\* name, reads the attributes, and runs pse51_mq_destroy when it dropped the
\* last reference; a POSIX skin thread sends to the queue of one slot and
\* receives from it through either descriptor, and sleeps on it.
LifeOpens == {Flags(O_RDWR, {O_CREAT}), Flags(O_RDWR, {})}
LifeAttr == [mq_maxmsg |-> 1, mq_msgsize |-> 2]
LifeUsers == {"p1"}

NextLife ==
    \/ \E name \in Names, oflags \in LifeOpens, word \in HeapWords :
          MqOpen("root", name, oflags, LifeAttr, TRUE, word)
    \/ MqOpenInit("root", TRUE)
    \/ \E t \in EngineThreads, fd \in Fds : MqClose(t, fd)
    \/ \E t \in EngineThreads, name \in Names : MqUnlink(t, name)
    \/ MqDestroy("root")
    \/ \E fd \in Fds : MqGetattr("root", fd)
    \/ \E t \in LifeUsers, fd \in Fds, m \in PoolMsgs :
          MqSend(t, fd, m.buffer, m.len, m.prio)
    \/ \E t \in LifeUsers : SendResume(t, FALSE)
    \/ \E t \in LifeUsers, fd \in Fds : MqReceive(t, fd, 2, TRUE)
    \/ \E t \in LifeUsers : RcvResume(t, FALSE)

SpecLife == Init /\ [][NextLife]_vars

\* The flush: the root context creates the queue of one slot, unlinks it,
\* closes it and destroys it, and creates it again under the descriptor
\* that became free; a POSIX skin thread and a thread of another skin send
\* and receive through the first descriptor and sleep on the queue.
FlushOpens == {Flags(O_RDWR, {O_CREAT, O_EXCL})}
FlushUsers == {"p1", "k1"}
FlushFds == {1}

NextFlush ==
    \/ \E name \in Names, oflags \in FlushOpens, word \in HeapWords :
          MqOpen("root", name, oflags, LifeAttr, TRUE, word)
    \/ MqOpenInit("root", TRUE)
    \/ \E t \in EngineThreads, fd \in Fds : MqClose(t, fd)
    \/ \E t \in EngineThreads, name \in Names : MqUnlink(t, name)
    \/ MqDestroy("root")
    \/ \E t \in FlushUsers, fd \in FlushFds, m \in PoolMsgs :
          MqSend(t, fd, m.buffer, m.len, m.prio)
    \/ \E t \in FlushUsers : SendResume(t, FALSE)
    \/ \E t \in FlushUsers, fd \in FlushFds : MqReceive(t, fd, 2, TRUE)
    \/ \E t \in FlushUsers : RcvResume(t, FALSE)

SpecFlush == Init /\ [][NextFlush]_vars

\* The creation: the root context creates the queue, with attributes
\* pse51_mq_init accepts or rejects and with or without memory for it; a
\* POSIX skin thread and a thread of another skin open the name meanwhile
\* and afterwards, and the POSIX skin thread sends and receives through the
\* first descriptor; the root context closes, unlinks and destroys.
CreateOpens == {Flags(O_RDWR, {O_CREAT})}
CreateAttrs == [mq_maxmsg : 0..1, mq_msgsize : {2}]
JoinOpens == {Flags(O_RDWR, {})}
Joiners == {"p1", "k1"}

NextCreate ==
    \/ \E name \in Names, oflags \in CreateOpens, attr \in CreateAttrs, memok \in BOOLEAN,
          word \in HeapWords :
          MqOpen("root", name, oflags, attr, memok, word)
    \/ \E memok \in BOOLEAN : MqOpenInit("root", memok)
    \/ \E t \in Joiners, name \in Names, oflags \in JoinOpens, word \in HeapWords :
          MqOpen(t, name, oflags, LifeAttr, TRUE, word)
    \/ \E t \in Joiners, word \in HeapWords : OpenResume(t, TRUE, word)
    \/ \E fd \in Fds : MqClose("root", fd)
    \/ \E name \in Names : MqUnlink("root", name)
    \/ MqDestroy("root")
    \/ \E fd \in FlushFds, m \in PoolMsgs : MqSend("p1", fd, m.buffer, m.len, m.prio)
    \/ SendResume("p1", FALSE)
    \/ \E fd \in FlushFds : MqReceive("p1", fd, 2, TRUE)
    \/ RcvResume("p1", FALSE)

SpecCreate == Init /\ [][NextCreate]_vars

\* The attributes: the root context opens the queue of one slot up to twice;
\* the root context and a POSIX skin thread set the flags of either
\* descriptor, with and without asking for the old attributes, and read the
\* attributes; a POSIX skin thread and a thread of another skin send and
\* receive through either descriptor and sleep on the queue.
AttrCallers == {"root", "p1"}

NextAttr ==
    \/ \E name \in Names, oflags \in LifeOpens, word \in HeapWords :
          MqOpen("root", name, oflags, LifeAttr, TRUE, word)
    \/ MqOpenInit("root", TRUE)
    \/ \E t \in AttrCallers, fd \in Fds, mq_flags \in SetFlags, oattr \in BOOLEAN :
          MqSetattr(t, fd, mq_flags, oattr)
    \/ \E fd \in Fds : MqGetattr("root", fd)
    \/ \E t \in FlushUsers, fd \in Fds, m \in PoolMsgs :
          MqSend(t, fd, m.buffer, m.len, m.prio)
    \/ \E t \in FlushUsers : SendResume(t, FALSE)
    \/ \E t \in FlushUsers, fd \in Fds : MqReceive(t, fd, 2, TRUE)
    \/ \E t \in FlushUsers : RcvResume(t, FALSE)

SpecAttr == Init /\ [][NextAttr]_vars

\* The refusals: the root context opens the queue of one slot and of
\* messages of two bytes up to twice, read-only, write-only or read-write;
\* a POSIX skin thread and a thread of another skin call
\* mq_timedsend with a message that fits and with one that is too long, and
\* mq_timedreceive with a buffer that is large enough and with one that is
\* too small, through either descriptor, with tv_nsec fields in and out of
\* range and deadlines ahead and past; they sleep and time out.
ErrOpens == {Flags(p, {O_CREAT}) : p \in {O_RDONLY, O_WRONLY, O_RDWR}}
ErrMsgs == { [buffer |-> <<1>>, len |-> 1, prio |-> 0],
             [buffer |-> <<4, 5, 6>>, len |-> 3, prio |-> 0] }

NextErr ==
    \/ \E name \in Names, oflags \in ErrOpens, word \in HeapWords :
          MqOpen("root", name, oflags, LifeAttr, TRUE, word)
    \/ MqOpenInit("root", TRUE)
    \/ \E t \in FlushUsers, fd \in Fds, m \in ErrMsgs, tv_nsec \in Nsecs,
          deadline \in Deadlines :
          MqTimedsend(t, fd, m.buffer, m.len, m.prio, tv_nsec, deadline)
    \/ \E t \in FlushUsers, fd \in Fds, len \in RcvLens, tv_nsec \in Nsecs,
          deadline \in Deadlines :
          MqTimedreceive(t, fd, len, TRUE, tv_nsec, deadline)
    \/ \E t \in FlushUsers, expired \in BOOLEAN : SendResume(t, expired)
    \/ \E t \in FlushUsers, expired \in BOOLEAN : RcvResume(t, expired)
    \/ \E t \in FlushUsers : Timeout(t)

SpecErr == Init /\ [][NextErr]_vars

\* The attributes of a creation: the root context creates the queue with
\* mq_maxmsg below zero, zero and above zero, with or without memory for the
\* pool, closes, unlinks and destroys it; a POSIX skin thread sends and
\* receives through the first descriptor.
\* mq_maxmsg is a long: pse51_mq_init computes the size of the pool in an
\* unsigned, and for mq_maxmsg = -1 the size wraps to 0 after PAGE_ALIGN, so
\* that the allocation may succeed; the loop that fills the pool then runs
\* no pass where long is wider than unsigned.
InitAttrs == [mq_maxmsg : -1..1, mq_msgsize : {2}]

NextInit ==
    \/ \E name \in Names, oflags \in CreateOpens, attr \in InitAttrs, word \in HeapWords :
          MqOpen("root", name, oflags, attr, TRUE, word)
    \/ \E memok \in BOOLEAN : MqOpenInit("root", memok)
    \/ \E fd \in Fds : MqClose("root", fd)
    \/ \E name \in Names : MqUnlink("root", name)
    \/ MqDestroy("root")
    \/ \E fd \in Fds : MqGetattr("root", fd)
    \/ \E fd \in FlushFds, m \in PoolMsgs : MqSend("p1", fd, m.buffer, m.len, m.prio)
    \/ SendResume("p1", FALSE)
    \/ \E fd \in FlushFds : MqReceive("p1", fd, 2, TRUE)
    \/ RcvResume("p1", FALSE)

SpecInit == Init /\ [][NextInit]_vars

\* The unloading: the life of a queue of one slot as above, with two user
\* threads that sleep on it, until the root context unloads the package.
\* The unloading begins when no thread is between its wake-up and its
\* return; from then on no service is called, and the threads that the
\* unloading wakes return. The loop of pse51_mq_pkg_cleanup, once it can run, is
\* scheduled until it ends.
Up == pc["root"] \notin {"cleanup", "down"}
Quiet == \A t \in Threads : pc[t] \in {"idle", "snd_sleep", "rcv_sleep"}
Unload == (Up => Quiet) /\ PkgCleanup

NextDown ==
    \/ Up /\ \E name \in Names, oflags \in LifeOpens, word \in HeapWords :
                MqOpen("root", name, oflags, LifeAttr, TRUE, word)
    \/ Up /\ MqOpenInit("root", TRUE)
    \/ Up /\ \E fd \in Fds : MqClose("root", fd)
    \/ Up /\ \E name \in Names : MqUnlink("root", name)
    \/ Up /\ MqDestroy("root")
    \/ Up /\ \E t \in FlushUsers, fd \in FlushFds, m \in PoolMsgs :
                MqSend(t, fd, m.buffer, m.len, m.prio)
    \/ Up /\ \E t \in FlushUsers, fd \in FlushFds : MqReceive(t, fd, 2, TRUE)
    \/ \E t \in FlushUsers : SendResume(t, FALSE)
    \/ \E t \in FlushUsers : RcvResume(t, FALSE)
    \/ Unload

\* The wake-ups: the root context creates the queue of one slot, unlinks it,
\* closes it and destroys it; a POSIX skin thread and a thread of another
\* skin make timed sends and receives through the first descriptor and
\* sleep in them until the other one serves them, the deadline passes, a
\* signal arrives or the queue is destroyed.
NextWake ==
    \/ \E name \in Names, oflags \in FlushOpens, word \in HeapWords :
          MqOpen("root", name, oflags, LifeAttr, TRUE, word)
    \/ MqOpenInit("root", TRUE)
    \/ \E fd \in Fds : MqClose("root", fd)
    \/ \E name \in Names : MqUnlink("root", name)
    \/ MqDestroy("root")
    \/ \E t \in FlushUsers, fd \in FlushFds, m \in PoolMsgs, deadline \in Deadlines :
          MqTimedsend(t, fd, m.buffer, m.len, m.prio, 0, deadline)
    \/ \E t \in FlushUsers, fd \in FlushFds, deadline \in Deadlines :
          MqTimedreceive(t, fd, 2, TRUE, 0, deadline)
    \/ \E t \in FlushUsers, expired \in BOOLEAN : SendResume(t, expired)
    \/ \E t \in FlushUsers, expired \in BOOLEAN : RcvResume(t, expired)
    \/ \E t \in FlushUsers : Timeout(t)
    \/ \E t \in FlushUsers : Unblock(t)

SpecWake == Init /\ [][NextWake]_vars

\* The wake order: the root context creates the queue of one slot and,
\* never sleeping, sends to it and receives from it; two POSIX skin threads
\* of different priorities and a thread of another skin send and receive
\* and sleep on the queue.
PrioUsers == {"p1", "p2", "k1"}

NextPrio ==
    \/ \E name \in Names, oflags \in FlushOpens, word \in HeapWords :
          MqOpen("root", name, oflags, LifeAttr, TRUE, word)
    \/ MqOpenInit("root", TRUE)
    \/ \E t \in Threads, fd \in FlushFds, m \in PoolMsgs :
          MqSend(t, fd, m.buffer, m.len, m.prio)
    \/ \E t \in Threads, fd \in FlushFds, len \in RcvLens : MqReceive(t, fd, len, TRUE)
    \/ \E t \in PrioUsers : SendResume(t, FALSE)
    \/ \E t \in PrioUsers : RcvResume(t, FALSE)

SpecPrio == Init /\ [][NextPrio]_vars

\* The same with a fair scheduler: a thread that has been readied runs. The
\* calls are made when the callers choose, or never.
SpecPrioFair ==
    /\ SpecPrio
    /\ \A t \in PrioUsers : WF_vars(SendResume(t, FALSE)) /\ WF_vars(RcvResume(t, FALSE))

\* The failures of mq_open: the root context opens the name, with and
\* without O_CREAT, with mq_maxmsg 0 or 1, with and without memory for the
\* queue object and for the pool, with pse51_node_add_start accepting the
\* node or not, up to twice at a time and once more; it closes the
\* descriptors, unlinks the name and destroys the queue.
NextOpenErr ==
    \/ \E name \in Names, oflags \in LifeOpens, attr \in CreateAttrs,
          memok \in BOOLEAN, addok \in BOOLEAN, word \in HeapWords :
          MqOpenAdd("root", name, oflags, attr, memok, addok, word)
    \/ \E memok \in BOOLEAN : MqOpenInit("root", memok)
    \/ \E fd \in Fds : MqClose("root", fd)
    \/ \E name \in Names : MqUnlink("root", name)
    \/ MqDestroy("root")
    \/ \E fd \in Fds : MqGetattr("root", fd)

SpecOpenErr == Init /\ [][NextOpenErr]_vars

\* The descriptor under a sleeper: the root context opens the queue of one
\* slot up to twice, closes either descriptor and sets the flags of either
\* descriptor, while the name keeps the queue alive; a POSIX skin thread and
\* a thread of another skin send and receive through either descriptor,
\* sleep on the queue and wake each other.
NextReval ==
    \/ \E name \in Names, oflags \in LifeOpens, word \in HeapWords :
          MqOpen("root", name, oflags, LifeAttr, TRUE, word)
    \/ MqOpenInit("root", TRUE)
    \/ \E fd \in Fds : MqClose("root", fd)
    \/ \E fd \in Fds, mq_flags \in SetFlags : MqSetattr("root", fd, mq_flags, FALSE)
    \/ \E t \in FlushUsers, fd \in Fds, m \in PoolMsgs :
          MqSend(t, fd, m.buffer, m.len, m.prio)
    \/ \E t \in FlushUsers : SendResume(t, FALSE)
    \/ \E t \in FlushUsers, fd \in Fds : MqReceive(t, fd, 2, TRUE)
    \/ \E t \in FlushUsers : RcvResume(t, FALSE)

SpecReval == Init /\ [][NextReval]_vars

SpecDown == Init /\ [][NextDown]_vars /\ WF_vars(Unload)

\* ------------------------------------------------------- pool accounting

\* The queues that mq_open has finished creating.
Live(q) == mq[q].state = "live"

\* The slots of a queue that are on the free list or on the priority list.
SlotsOf(m) ==
    {m.avail[i] : i \in 1..Len(m.avail)} \cup {m.queued[i].slot : i \in 1..Len(m.queued)}

SendersOnlyWhenFull ==
    \A q \in Mqs : (Live(q) /\ mq[q].senders # <<>>) =>
        countpq(mq[q].queued) = mq[q].attr.mq_maxmsg

\* C3: in every reachable state of a queue, if a thread is suspended on the
\* receiver wait queue then the current count equals 0.
ReceiversOnlyWhenEmpty ==
    \A q \in Mqs : (Live(q) /\ mq[q].receivers # <<>>) => countpq(mq[q].queued) = 0

\* ---------------------------------------------------------- the hand-off

\* The message a sleeping sender retries with.
Pending(t) == [buffer |-> loc[t].buffer, len |-> loc[t].len, prio |-> loc[t].prio]

\* A step in which thread t runs pse51_mq_trysend with message m on
\* descriptor fd: its call of mq_send, or its retry after a receiver woke it.
Sends(t, fd, m) ==
    \/ MqSend(t, fd, m.buffer, m.len, m.prio)
    \/ /\ pc[t] = "snd_woken" /\ loc[t].info = "none"
       /\ loc[t].fd = fd /\ m = Pending(t)
       /\ SendResume(t, FALSE)

\* The receiver at the head of the receiver wait queue of descriptor fd.
FirstReceiver(fd) == Head(mq[desc[fd].mq].receivers)

\* A send is about to find a receiver suspended on the queue of fd.
ReceiverWaits(fd) == DescOk(fd) /\ mq[desc[fd].mq].receivers # <<>>

\* C5: a send that finds a receiver suspended on the queue wakes exactly one
\* receiver and hands the message over directly: no slot leaves the pool,
\* the free list and the current count are after the send what they were
\* before, and the woken receiver returns success.
HandoffTakesNoSlot ==
    [][ /\ \A t \in Threads, fd \in EngineFds, m \in EngineMsgs :
              (out'.op = "mq_send" /\ ReceiverWaits(fd) /\ Sends(t, fd, m)) =>
                  /\ mq'[desc[fd].mq].avail = mq[desc[fd].mq].avail
                  /\ mq'[desc[fd].mq].queued = mq[desc[fd].mq].queued
                  /\ mq'[desc[fd].mq].receivers = Tail(mq[desc[fd].mq].receivers)
                  /\ pc'[FirstReceiver(fd)] = "rcv_woken"
        /\ \A t \in Threads :
              (pc[t] = "rcv_woken" /\ loc[t].info = "none" /\ RcvResume(t, FALSE)) =>
                  out'.rc = OK
      ]_vars

\* What a receive returned: the bytes, the length and the priority.
Returned(o) == [buffer |-> o.data, len |-> o.len, prio |-> o.prio]

\* What a receiver the hand-off has served finds in its buffer.
HandedOver(l) == [buffer |-> l.buffer, len |-> l.len, prio |-> l.prio]

\* What a holder of the priority list carries.
Carried(h) == [buffer |-> h.data, len |-> h.len, prio |-> h.prio]

\* The priority list q with the holder at position i taken out.
Without(q, i) == SubSeq(q, 1, i - 1) \o SubSeq(q, i + 1, Len(q))

\* C6: the bytes, the length and the priority a receiver returns are those a
\* sender supplied, by direct hand-off (the receiver blocked first) and
\* through the pool (the sender came first). By hand-off: the send writes
\* its message into the buffer of the POSIX skin receiver it wakes, which
\* returns that buffer. Through the pool: the send adds one holder carrying
\* its message and changes no other, and a receive returns what the holder
\* it takes off the list carries.
RendezvousCarries ==
    [][ /\ \A t \in Threads, fd \in EngineFds, m \in EngineMsgs :
              (out'.op = "mq_send" /\ out'.rc = OK /\ DescOk(fd) /\ Sends(t, fd, m)) =>
                  IF ReceiverWaits(fd) /\ thread2pthread(FirstReceiver(fd)) # NULL
                  THEN /\ loc'[FirstReceiver(fd)].used = 1
                       /\ HandedOver(loc'[FirstReceiver(fd)]) = m
                  ELSE \E i \in 1..Len(mq'[desc[fd].mq].queued) :
                          /\ Carried(mq'[desc[fd].mq].queued[i]) = m
                          /\ Without(mq'[desc[fd].mq].queued, i) = mq[desc[fd].mq].queued
        /\ \A t \in Threads :
              (pc[t] = "rcv_woken" /\ loc[t].used = 1 /\ RcvResume(t, FALSE)) =>
                  /\ out'.rc = OK
                  /\ Returned(out') = HandedOver(loc[t])
        /\ \A fd \in EngineFds :
              (out'.op = "mq_receive" /\ out'.rc = OK /\ DescOk(fd)
                  /\ mq'[desc[fd].mq].queued # mq[desc[fd].mq].queued) =>
                  /\ Returned(out') = Carried(Head(mq[desc[fd].mq].queued))
                  /\ mq'[desc[fd].mq].queued = Tail(mq[desc[fd].mq].queued)
        /\ \A fd \in EngineFds :
              (DescOk(fd) /\ out'.op # "mq_send" /\ out'.op # "mq_receive") =>
                  \A q \in Mqs : Live(q) => mq'[q].queued = mq[q].queued
      ]_vars

\* C6, the case: a sender's two bytes of priority 1 have been handed to a
\* receiver that blocked first, while the pool holds another message.
RendezvousReached ==
    /\ pc["p1"] = "rcv_woken"
    /\ loc["p1"].used = 1
    /\ HandedOver(loc["p1"]) = [buffer |-> <<2, 3>>, len |-> 2, prio |-> 1]
    /\ \E q \in Mqs : Live(q) /\ mq[q].queued # <<>>

\* ------------------------------------------------------------ the notifier

\* The queue of descriptor fd before and after the step.
QueueOf(fd) == mq[desc[fd].mq]
QueueAfter(fd) == mq'[desc[fd].mq]

\* C7: a send that enqueues the message making the current count 1, with no
\* receiver woken and a notifier registered, delivers the registered signal
\* and value to the registered thread, once, and clears the registration; a
\* send into a non-empty queue, or into a queue whose registration is
\* cleared, delivers nothing.
NotifierOneShot ==
    [][ \A t \in Threads, fd \in EngineFds, m \in EngineMsgs :
           (out'.op = "mq_send" /\ DescOk(fd) /\ Sends(t, fd, m)) =>
               /\ (/\ QueueOf(fd).registered # NULL
                   /\ QueueOf(fd).receivers = <<>>
                   /\ countpq(QueueAfter(fd).queued) = 1
                   /\ countpq(QueueOf(fd).queued) = 0) =>
                      /\ out'.sig = [thr |-> QueueOf(fd).registered, si |-> QueueOf(fd).si]
                      /\ out'.sig.si.si_code = "SI_MESGQ"
                      /\ QueueAfter(fd).target = NULL
                      /\ QueueAfter(fd).registered = NULL
               /\ (QueueOf(fd).queued # <<>> \/ QueueOf(fd).target = NULL) =>
                      /\ out'.sig = NoSig
                      /\ QueueAfter(fd).target = QueueOf(fd).target
      ]_vars

\* C7, the case: the send that made the count 1 has delivered the signal and
\* value p1 registered, and the registration is gone.
NotifierFired ==
    /\ out.op = "mq_send"
    /\ out.sig = [thr |-> "p1",
                  si |-> [si_signo |-> 1, si_code |-> "SI_MESGQ", si_value |-> 10]]
    /\ \E q \in Mqs : /\ Live(q) /\ countpq(mq[q].queued) = 1
                      /\ mq[q].target = NULL /\ mq[q].registered = NULL

\* C8: a send that arrives while a receiver is suspended on the queue never
\* fires the notifier and leaves the registration as it was.
NoNotifyWithReceiver ==
    [][ \A t \in Threads, fd \in EngineFds, m \in EngineMsgs :
           (out'.op = "mq_send" /\ ReceiverWaits(fd) /\ Sends(t, fd, m)) =>
               /\ out'.sig = NoSig
               /\ QueueAfter(fd).target = QueueOf(fd).target
               /\ QueueAfter(fd).si = QueueOf(fd).si
               /\ QueueAfter(fd).registered = QueueOf(fd).registered
      ]_vars

\* C8, the case: with p1 registered, a send has found a receiver of another
\* skin suspended, woken it and enqueued the first message, and p1 is still
\* registered.
NoNotifyReached ==
    /\ out.op = "mq_send" /\ out.rc = OK /\ out.sig = NoSig
    /\ pc["k1"] = "rcv_woken" /\ loc["k1"].info = "none"
    /\ \E q \in Mqs : /\ Live(q) /\ countpq(mq[q].queued) = 1
                      /\ mq[q].registered = "p1" /\ mq[q].target = "p1"

\* Whether the sigevent of a mq_notify call asks for a signal.
EvpSignals(evp) == evp # NoEvp /\ evp.sigev_notify = "SIGEV_SIGNAL" /\ ~EvpInvalid(evp)

\* The siginfo a registration with this sigevent delivers.
SiOf(evp) ==
    [si_signo |-> evp.sigev_signo, si_code |-> "SI_MESGQ", si_value |-> evp.sigev_value]

\* C9: mq_notify with a signal spec, called by a POSIX skin thread,
\* installs the registration exactly when none exists or the existing one
\* is the caller's, replacing signal and value; when another thread is
\* registered it fails with EBUSY and leaves target, signal and value alone.
NotifyInstalls ==
    [][ \A t \in Threads, fd \in EngineFds, evp \in EngineEvps :
           (/\ out'.op = "mq_notify" /\ DescOk(fd) /\ thread2pthread(t) # NULL
            /\ EvpSignals(evp) /\ MqNotify(t, fd, evp)) =>
               IF QueueOf(fd).registered = NULL \/ QueueOf(fd).registered = t
               THEN /\ out'.rc = OK
                    /\ QueueAfter(fd).target = t
                    /\ QueueAfter(fd).si = SiOf(evp)
               ELSE /\ out'.rc = EBUSY
                    /\ QueueAfter(fd).target = QueueOf(fd).target
                    /\ QueueAfter(fd).si = QueueOf(fd).si
      ]_vars

\* C10: mq_notify with no sigevent or with SIGEV_NONE, called by a POSIX
\* skin thread, clears the registration exactly when the caller is the
\* registered thread or nothing is registered; when another thread is
\* registered it fails with EBUSY and the registration remains.
NotifyClears ==
    [][ \A t \in Threads, fd \in EngineFds, evp \in EngineEvps :
           (/\ out'.op = "mq_notify" /\ DescOk(fd) /\ thread2pthread(t) # NULL
            /\ ~EvpInvalid(evp) /\ EvpClears(evp) /\ MqNotify(t, fd, evp)) =>
               IF QueueOf(fd).registered = NULL \/ QueueOf(fd).registered = t
               THEN /\ out'.rc = OK
                    /\ QueueAfter(fd).target = NULL
               ELSE /\ out'.rc = EBUSY
                    /\ QueueAfter(fd).target = QueueOf(fd).target
      ]_vars

\* --------------------------------------------------------------- ordering

\* The priority the sender of these bytes gave.
PrioSent(data) == (CHOOSE m \in FifoMsgs : m.buffer = data).prio

\* The priority list holds its messages by descending priority, each with
\* the priority its sender gave.
Descending(queued) ==
    /\ \A i \in 1..Len(queued) : queued[i].prio = PrioSent(queued[i].data)
    /\ \A i, j \in 1..Len(queued) : i < j => queued[i].prio >= queued[j].prio

\* How many messages of the list have priority prio or more.
AtLeast(queued, prio) == Cardinality({i \in 1..Len(queued) : queued[i].prio >= prio})

\* The messages of a priority list, in its order.
MsgsOf(queued) == [i \in 1..Len(queued) |-> Carried(queued[i])]

\* The list with message m put behind the k messages at its head.
PutBehind(msgs, k, m) == SubSeq(msgs, 1, k) \o <<m>> \o SubSeq(msgs, k + 1, Len(msgs))

\* C4: successive receives return the enqueued messages by descending
\* priority and, among equal priorities, in the order they were sent, each
\* with the priority given at send. The list is kept by descending
\* priority; a send puts its message behind every message of its priority or
\* more, so behind the earlier ones of its own priority, and ahead of the
\* rest; a receive takes the head and reports its bytes and its priority.
FifoOrder ==
    /\ [](\A q \in Mqs : Live(q) => Descending(mq[q].queued))
    /\ [][ /\ \A fd \in EngineFds, m \in FifoMsgs :
                 (/\ out'.op = "mq_send" /\ out'.rc = OK /\ DescOk(fd)
                  /\ MqSend("root", fd, m.buffer, m.len, m.prio)) =>
                     MsgsOf(QueueAfter(fd).queued) =
                         PutBehind(MsgsOf(QueueOf(fd).queued),
                                   AtLeast(QueueOf(fd).queued, m.prio), m)
           /\ \A fd \in EngineFds :
                 (out'.op = "mq_receive" /\ out'.rc = OK /\ DescOk(fd)) =>
                     /\ Returned(out') = Carried(Head(QueueOf(fd).queued))
                     /\ out'.prio = PrioSent(out'.data)
                     /\ QueueAfter(fd).queued = Tail(QueueOf(fd).queued)
         ]_vars

\* C4, the case: A/1, B/3, C/2 and D/3 were sent in this order into the
\* empty queue (the pool hands out slots 3, 2, 1, 0) and stand as B, D, C, A.
FifoReached ==
    \E q \in Mqs :
       /\ Live(q)
       /\ MsgsOf(mq[q].queued) = <<MsgB, MsgD, MsgC, MsgA>>
       /\ [i \in 1..4 |-> mq[q].queued[i].slot] = <<2, 0, 1, 3>>

\* ------------------------------------------------------ notify, repeated

\* The last step was a mq_notify on fd that succeeded and left no target:
\* a mq_notify with no sigevent or with SIGEV_NONE.
JustCleared(fd) ==
    /\ out.op = "mq_notify" /\ out.rc = OK
    /\ DescOk(fd) /\ QueueOf(fd).target = NULL

\* C11: mq_notify with no target, issued right after a mq_notify with no
\* target that succeeded, succeeds and leaves the registration, the
\* messages, the waiters and everything else of the queue as they were.
NotifyClearIdempotent ==
    [][ \A t \in Threads, fd \in EngineFds, evp \in EngineEvps :
           (/\ JustCleared(fd) /\ thread2pthread(t) # NULL
            /\ ~EvpInvalid(evp) /\ EvpClears(evp) /\ MqNotify(t, fd, evp)) =>
               /\ out'.rc = OK
               /\ mq' = mq
               /\ UNCHANGED <<registry, mqq, desc, pc, loc>>
      ]_vars

\* C11, the case: a mq_notify with no target has just succeeded on a queue
\* that holds a message and has a sender asleep on it.
NotifyClearedReached ==
    \E fd \in EngineFds :
       /\ JustCleared(fd)
       /\ QueueOf(fd).queued # <<>>
       /\ QueueOf(fd).senders # <<>>
       /\ QueueOf(fd).registered = NULL

\* ------------------------------------------------- non-blocking descriptors

\* A step in which thread t calls mq_send or mq_timedsend (with a valid
\* tv_nsec) on descriptor fd with message m.
CallsSend(t, fd, m) ==
    \/ MqSend(t, fd, m.buffer, m.len, m.prio)
    \/ \E deadline \in Deadlines : MqTimedsend(t, fd, m.buffer, m.len, m.prio, 0, deadline)

\* A step in which thread t calls mq_receive or mq_timedreceive (with a
\* valid tv_nsec) on descriptor fd, with a buffer of the message size.
CallsReceive(t, fd) ==
    \/ MqReceive(t, fd, 2, TRUE)
    \/ \E deadline \in Deadlines : MqTimedreceive(t, fd, 2, TRUE, 0, deadline)

\* Descriptor fd is open and non-blocking.
NonBlocking(fd) == DescOk(fd) /\ O_NONBLOCK \in desc[fd].flags.bits

\* C12: through a non-blocking descriptor, a send on a full queue with no
\* receiver waiting returns EAGAIN, does not suspend the caller and changes
\* nothing of the queue, and a send that finds a free slot succeeds; a
\* receive on an empty queue returns EAGAIN without suspending the caller.
NonBlockingWouldBlock ==
    [][ /\ \A t \in Threads, fd \in EngineFds, m \in PoolMsgs :
              (/\ out'.op \in {"mq_send", "mq_timedsend"}
               /\ NonBlocking(fd) /\ QueueOf(fd).receivers = <<>>
               /\ CallsSend(t, fd, m)) =>
                  IF QueueOf(fd).avail = <<>>
                  THEN /\ out'.rc = EAGAIN
                       /\ pc'[t] = "idle"
                       /\ mq' = mq
                  ELSE /\ out'.rc = OK
                       /\ pc'[t] = "idle"
                       /\ countpq(QueueAfter(fd).queued) = countpq(QueueOf(fd).queued) + 1
        /\ \A t \in Threads, fd \in EngineFds :
              (/\ out'.op \in {"mq_receive", "mq_timedreceive"}
               /\ NonBlocking(fd) /\ QueueOf(fd).queued = <<>>
               /\ CallsReceive(t, fd)) =>
                  /\ out'.rc = EAGAIN
                  /\ pc'[t] = "idle"
                  /\ mq' = mq
      ]_vars

\* C12, the case: a thread that may sleep has been refused with EAGAIN by a
\* timed send on the full queue of a non-blocking descriptor, and is not
\* asleep.
WouldBlockReached ==
    \E fd \in EngineFds :
       /\ out.op = "mq_timedsend" /\ out.rc = EAGAIN
       /\ NonBlocking(fd)
       /\ QueueOf(fd).avail = <<>> /\ QueueOf(fd).senders = <<>>
       /\ pc["p1"] = "idle" /\ pc["k1"] = "idle"

\* ------------------------------------------------------------- timing out

\* The threads on a wait queue.
OnQueue(q) == {q[i] : i \in 1..Len(q)}

\* C13: a timed send asleep on a full queue whose deadline expires leaves
\* the sender wait queue with the messages and the count of the queue as
\* they are, and returns ETIMEDOUT without touching the queue; no thread
\* that has returned is on a wait queue.
TimedSendTimesOut ==
    /\ [](\A q \in Mqs, t \in Threads :
            (Live(q) /\ t \in OnQueue(mq[q].senders)) => pc[t] = "snd_sleep")
    /\ [][ /\ \A t \in Threads :
                 (pc[t] = "snd_sleep" /\ Timeout(t)) =>
                     /\ t \notin OnQueue(mq'[loc[t].mq].senders)
                     /\ mq'[loc[t].mq].queued = mq[loc[t].mq].queued
                     /\ mq'[loc[t].mq].avail = mq[loc[t].mq].avail
                     /\ pc'[t] = "snd_woken"
           /\ \A t \in Threads, expired \in BOOLEAN :
                 (/\ pc[t] = "snd_woken" /\ loc[t].info = "XNTIMEO"
                  /\ SendResume(t, expired)) =>
                     /\ out'.op = "mq_timedsend" /\ out'.rc = ETIMEDOUT
                     /\ pc'[t] = "idle"
                     /\ mq' = mq
         ]_vars

\* C13, the case: the deadline of p1's timed send has expired on a queue of
\* one slot that still holds its one message; p1 is off the wait queue and
\* about to return.
TimedOutReached ==
    /\ pc["p1"] = "snd_woken" /\ loc["p1"].info = "XNTIMEO"
    /\ \E q \in Mqs :
          /\ Live(q) /\ mq[q].attr.mq_maxmsg = 1
          /\ countpq(mq[q].queued) = 1
          /\ "p1" \notin OnQueue(mq[q].senders)

\* ------------------------------------------------------------- destruction

\* Thread x is asleep on a wait queue of queue object q.
AsleepOn(x, q) == pc[x] \in {"snd_sleep", "rcv_sleep"} /\ loc[x].mq = q

\* Thread x has been readied by the destruction of the queue it slept on.
Flushed(x) == pc[x] \in {"snd_woken", "rcv_woken"} /\ loc[x].info = "XNRMID"

\* C14: the destruction of a queue readies every thread asleep on its sender
\* or receiver wait queue; each of them returns EBADF from its mq_send or
\* mq_receive without another attempt on any queue; and no thread is ever
\* asleep on a queue object that is not live.
DestroyFlushesSleepers ==
    /\ [](\A x \in Threads : pc[x] \in {"snd_sleep", "rcv_sleep"} =>
             /\ Live(loc[x].mq)
             /\ x \in Sleepers(mq[loc[x].mq]))
    /\ [][ /\ \A t \in Threads :
                 (pc[t] = "destroy" /\ MqDestroy(t)) =>
                     \A x \in Threads : AsleepOn(x, loc[t].mq) => Flushed(x)'
           /\ \A x \in Threads :
                 (Flushed(x) /\ (SendResume(x, FALSE) \/ RcvResume(x, FALSE))) =>
                     /\ out'.op = (IF pc[x] = "snd_woken" THEN "mq_send" ELSE "mq_receive")
                     /\ out'.rc = EBADF
                     /\ pc'[x] = "idle"
                     /\ UNCHANGED <<registry, mq, mqq, desc>>
         ]_vars

\* C14, the case: both user threads have been readied by the destruction of
\* the queue they slept on, and the root context has created the queue anew
\* under the descriptor they used.
FlushedReached ==
    /\ Flushed("p1") /\ Flushed("k1")
    /\ DescOk(1) /\ Live(desc[1].mq)

\* ------------------------------------------------------ the life of a queue

\* The name of queue object q is unlinked and no descriptor of it is open.
Abandoned(q) == ~Linked(q) /\ DescsOf(q) = {}

\* A caller is between the release of nklock and pse51_mq_destroy of q.
Destroying(q) == \E t \in Threads : pc[t] = "destroy" /\ loc[t].mq = q

\* C15: a queue object is destroyed only when its name is unlinked and no
\* descriptor of it is open; a live queue in that condition is in the hands
\* of the caller that is about to destroy it; and the mq_close or mq_unlink
\* step that brings the condition about is the one that goes on to destroy
\* the queue, while no other mq_close or mq_unlink does.
DestroyedIffAbandoned ==
    /\ [](\A q \in Mqs : Live(q) => (Abandoned(q) <=> Destroying(q)))
    /\ [][ /\ \A t \in Threads :
                 (pc[t] = "destroy" /\ MqDestroy(t)) =>
                     /\ Abandoned(loc[t].mq)
                     /\ mq'[loc[t].mq] = FreeMq
                     /\ loc[t].mq \notin OnQueue(mqq')
           /\ \A t \in Threads :
                 (/\ out'.op \in {"mq_close", "mq_unlink"}
                  /\ pc[t] = "idle"
                  /\ (\E fd \in Fds : MqClose(t, fd)) \/ (\E name \in Names : MqUnlink(t, name))) =>
                     \A q \in Mqs :
                        (Live(q) /\ ~Abandoned(q)) =>
                            /\ Live(q)'
                            /\ Abandoned(q)' <=> (pc'[t] = "destroy" /\ loc'[t].mq = q)
         ]_vars

\* C15, the case: the queue was opened twice and unlinked, one descriptor
\* has been closed and the queue is live, with its message, under the
\* descriptor that is left.
UnlinkedHeldOpen ==
    /\ out.op = "mq_close" /\ out.rc = OK
    /\ \E q \in Mqs :
          /\ Live(q) /\ ~Linked(q) /\ DescsOf(q) = {2}
          /\ mq[q].queued # <<>>

\* Descriptor fd is open on a live queue whose name is unlinked.
OpenUnlinked(fd) == desc[fd].mq # 0 /\ Live(desc[fd].mq) /\ ~Linked(desc[fd].mq)

\* C16: an mq_unlink that leaves descriptors open leaves them, the messages
\* and the waiters of the queue as they are and takes the name out of the
\* registry; through a descriptor of an unlinked queue mq_send puts the
\* message on that queue, mq_receive takes the head message of that queue
\* and mq_getattr reports its attributes and count; and mq_open without
\* O_CREAT of a name that is not in the registry returns ENOENT.
UnlinkedStillWorks ==
    [][ /\ \A name \in Names :
              (/\ out'.op = "mq_unlink" /\ out'.rc = OK
               /\ registry[name] # 0 /\ MqUnlink("root", name)) =>
                  /\ registry'[name] = 0
                  /\ desc' = desc
                  /\ mq' = [mq EXCEPT ![registry[name]].refcount = @ - 1]
                  /\ DescsOf(registry[name]) # {}
        /\ \A fd \in Fds, m \in PoolMsgs :
              (/\ out'.op = "mq_send"
               /\ OpenUnlinked(fd) /\ QueueOf(fd).avail # <<>> /\ QueueOf(fd).receivers = <<>>
               /\ MqSend("p1", fd, m.buffer, m.len, m.prio)) =>
                  /\ out'.rc = OK
                  /\ MsgsOf(QueueAfter(fd).queued) = PutBehind(MsgsOf(QueueOf(fd).queued),
                                                            AtLeast(QueueOf(fd).queued, m.prio), m)
        /\ \A fd \in Fds :
              (/\ out'.op = "mq_receive"
               /\ OpenUnlinked(fd) /\ QueueOf(fd).queued # <<>>
               /\ MqReceive("p1", fd, 2, TRUE)) =>
                  /\ out'.rc = OK
                  /\ Returned(out') = Carried(Head(QueueOf(fd).queued))
                  /\ QueueAfter(fd).queued = Tail(QueueOf(fd).queued)
        /\ \A fd \in Fds :
              (/\ out'.op = "mq_getattr"
               /\ OpenUnlinked(fd) /\ MqGetattr("root", fd)) =>
                  /\ out'.rc = OK
                  /\ out'.attr = [mq_maxmsg |-> QueueOf(fd).attr.mq_maxmsg,
                                  mq_msgsize |-> QueueOf(fd).attr.mq_msgsize,
                                  mq_flags |-> desc[fd].flags,
                                  mq_curmsgs |-> Len(QueueOf(fd).queued)]
        /\ \A name \in Names, word \in HeapWords :
              (/\ out'.op = "mq_open"
               /\ registry[name] = 0
               /\ MqOpen("root", name, Flags(O_RDWR, {}), LifeAttr, TRUE, word)) =>
                  /\ out'.rc = ENOENT
                  /\ UNCHANGED <<registry, mq, mqq, desc>>
      ]_vars

\* C16, the case: mq_open without O_CREAT has returned ENOENT for the name
\* of a queue that is unlinked, open under both descriptors, and holds its
\* message.
NotFoundWhileOpen ==
    /\ out.op = "mq_open" /\ out.rc = ENOENT
    /\ \E q \in Mqs : Live(q) /\ ~Linked(q) /\ DescsOf(q) = Fds /\ mq[q].queued # <<>>

\* ------------------------------------------------------- reference counts

\* What the reference count of queue object q stands for: its descriptors,
\* and its name while that is in the registry.
RefsOf(q) == Cardinality(DescsOf(q)) + (IF Linked(q) THEN 1 ELSE 0)
RefsAfter(q) == Cardinality(DescsOf(q)') + (IF Linked(q)' THEN 1 ELSE 0)

Creating(q) == \E t \in Threads : pc[t] = "open_init" /\ loc[t].mq = q

\* Thread x waits in mq_open for the creation under this name to finish.
WaitsFor(x, name) == pc[x] = "open_wait" /\ loc[x].name = name

\* C18: every descriptor is one of a queue whose creation has finished with
\* success, so that mq_send and mq_receive, which reach a queue through a
\* descriptor only, run on initialised queues; an mq_open that meets a
\* creation in progress returns nothing and waits; and a step that hands out
\* a descriptor hands out one of a queue that is live after the step.
NoHalfBuiltQueue ==
    /\ [](\A fd \in Fds : desc[fd].mq # 0 =>
             /\ Live(desc[fd].mq)
             /\ ~Creating(desc[fd].mq)
             /\ Len(mq[desc[fd].mq].avail) + Len(mq[desc[fd].mq].queued)
                    = mq[desc[fd].mq].attr.mq_maxmsg)
    /\ [][ /\ \A t \in Joiners, name \in Names, oflags \in JoinOpens, word \in HeapWords :
                 (/\ registry[name] # 0 /\ Creating(registry[name])
                  /\ MqOpen(t, name, oflags, LifeAttr, TRUE, word)) =>
                     /\ WaitsFor(t, name)'
                     /\ UNCHANGED <<registry, mq, mqq, desc>>
           /\ \A fd \in Fds, q \in Mqs :
                 (desc[fd].mq = 0 /\ desc'[fd].mq = q) =>
                     /\ Live(q)' /\ ~Creating(q)'
                     /\ out'.op = "mq_open" /\ out'.rc = OK
         ]_vars

\* C18, the case: the root context is between pse51_node_add_start and
\* pse51_node_add_finished, and both other threads have called mq_open for
\* the name and wait.
JoinersWait ==
    /\ pc["root"] = "open_init"
    /\ \A x \in Joiners : WaitsFor(x, loc["root"].name)

\* The error of pse51_mq_init for a creator in the root context.
InitFails(attr, memok) == attr.mq_maxmsg = 0 \/ ~memok

\* C19: when pse51_mq_init fails, for want of memory or for mq_maxmsg = 0,
\* the mq_open of the creator returns its error, ENOSPC or EINVAL; the name
\* leaves the registry, the queue object is freed without having been on the
\* list of live queues, no descriptor is made; every opener that waited for
\* the creation is readied with that error and returns it without touching
\* anything; and mq_open without O_CREAT of a name that is not in the
\* registry returns ENOENT.
InitFailureWithdraws ==
    [][ /\ \A memok \in BOOLEAN :
              (/\ pc["root"] = "open_init" /\ InitFails(loc["root"].attr, memok)
               /\ MqOpenInit("root", memok)) =>
                  /\ out'.op = "mq_open"
                  /\ out'.rc = (IF loc["root"].attr.mq_maxmsg = 0 THEN EINVAL ELSE ENOSPC)
                  /\ pc'["root"] = "idle"
                  /\ registry'[loc["root"].name] = 0
                  /\ mq'[loc["root"].mq] = FreeMq
                  /\ mqq' = mqq /\ loc["root"].mq \notin OnQueue(mqq)
                  /\ desc' = desc
                  /\ \A x \in Threads :
                        WaitsFor(x, loc["root"].name) =>
                            pc'[x] = "open_woken" /\ loc'[x].err = out'.rc
        /\ \A x \in Joiners, word \in HeapWords :
              (/\ pc[x] = "open_woken" /\ loc[x].err # OK
               /\ OpenResume(x, TRUE, word)) =>
                  /\ out'.op = "mq_open" /\ out'.rc = loc[x].err
                  /\ pc'[x] = "idle"
                  /\ UNCHANGED <<registry, mq, mqq, desc>>
        /\ \A t \in Joiners, name \in Names, oflags \in JoinOpens, word \in HeapWords :
              (/\ out'.op = "mq_open"
               /\ registry[name] = 0
               /\ MqOpen(t, name, oflags, LifeAttr, TRUE, word)) =>
                  /\ out'.rc = ENOENT
                  /\ UNCHANGED <<registry, mq, mqq, desc>>
      ]_vars

\* C19, the case: the creation has failed with EINVAL, the name is out of
\* the registry and no queue is live; one opener that waited has returned
\* EINVAL and the other is about to.
InitFailedReached ==
    /\ out.op = "mq_open" /\ out.rc = EINVAL
    /\ pc["root"] = "idle" /\ pc["k1"] = "idle"
    /\ pc["p1"] = "open_woken" /\ loc["p1"].err = EINVAL
    /\ \A n \in Names : registry[n] = 0
    /\ mqq = <<>>

\* --------------------------------------------------------------- mq_setattr

\* C20: mq_setattr on an open descriptor gives it the non-permission bits of
\* the caller's flags and leaves it its permission bits and its queue; it
\* leaves every other descriptor, and every queue with its attributes, its
\* messages and its waiters, as they are; what it writes to oattr, when
\* asked, is the attributes of the queue, the count of its messages and the
\* flags the descriptor had before the call. No step changes the permission
\* bits of a descriptor that stays open.
SetattrFrame ==
    [][ /\ \A t \in AttrCallers, fd \in Fds, mq_flags \in SetFlags, oattr \in BOOLEAN :
              (/\ out'.op = "mq_setattr"
               /\ DescOk(fd) /\ MqSetattr(t, fd, mq_flags, oattr)) =>
                  /\ out'.rc = OK
                  /\ desc'[fd].flags.perms = desc[fd].flags.perms
                  /\ desc'[fd].flags.bits = mq_flags.bits
                  /\ desc'[fd].mq = desc[fd].mq
                  /\ \A g \in Fds \ {fd} : desc'[g] = desc[g]
                  /\ mq' = mq
                  /\ UNCHANGED <<registry, mqq, pc, loc>>
                  /\ oattr =>
                        out'.attr = [mq_maxmsg |-> QueueOf(fd).attr.mq_maxmsg,
                                     mq_msgsize |-> QueueOf(fd).attr.mq_msgsize,
                                     mq_flags |-> desc[fd].flags,
                                     mq_curmsgs |-> Len(QueueOf(fd).queued)]
        /\ \A fd \in Fds :
              (desc[fd].mq # 0 /\ desc'[fd].mq # 0) =>
                  /\ desc'[fd].flags.perms = desc[fd].flags.perms
                  /\ QueueAfter(fd).attr = QueueOf(fd).attr
      ]_vars

\* C20, the case: mq_setattr has made the second descriptor non-blocking
\* and has reported its old flags, blocking, with the count of one message;
\* the first descriptor of the same queue is blocking as before, the message
\* is on the queue and a sender sleeps on it.
SetattrReached ==
    /\ out.op = "mq_setattr" /\ out.rc = OK
    /\ out.attr.mq_maxmsg = 1 /\ out.attr.mq_curmsgs = 1
    /\ O_NONBLOCK \notin out.attr.mq_flags.bits
    /\ DescOk(1) /\ DescOk(2) /\ desc[1].mq = desc[2].mq
    /\ O_NONBLOCK \in desc[2].flags.bits
    /\ O_NONBLOCK \notin desc[1].flags.bits
    /\ Len(QueueOf(1).queued) = 1 /\ QueueOf(1).senders # <<>>

\* ---------------------------------------------------------------- refusals

\* The tv_nsec fields that are in range.
GoodNsecs == {0, ONE_BILLION - 1}

\* Thread t calls mq_timedsend with message m on descriptor fd, with a
\* tv_nsec field in range.
TimedSends(t, fd, m) ==
    \E tv_nsec \in GoodNsecs, deadline \in Deadlines :
       MqTimedsend(t, fd, m.buffer, m.len, m.prio, tv_nsec, deadline)

\* Thread t calls mq_timedreceive with a buffer of len bytes on descriptor
\* fd, with a tv_nsec field in range.
TimedReceives(t, fd, len) ==
    \E tv_nsec \in GoodNsecs, deadline \in Deadlines :
       MqTimedreceive(t, fd, len, TRUE, tv_nsec, deadline)

\* C21: a send through a read-only descriptor returns EPERM, whatever the
\* length of the message; a send of more than mq_msgsize bytes through a
\* descriptor that may write returns EMSGSIZE; in both cases the queues, with
\* their receivers, slots, messages and notification, and every thread are
\* left as they are, and no signal is queued.
SendRefusals ==
    [][ \A t \in FlushUsers, fd \in Fds, m \in ErrMsgs :
           (/\ out'.op = "mq_timedsend"
            /\ DescOk(fd)
            /\ desc[fd].flags.perms = O_RDONLY \/ m.len > QueueOf(fd).attr.mq_msgsize
            /\ TimedSends(t, fd, m)) =>
               /\ out'.rc = (IF desc[fd].flags.perms = O_RDONLY THEN EPERM ELSE EMSGSIZE)
               /\ out'.sig = NoSig
               /\ UNCHANGED <<registry, mq, mqq, desc, pc, loc>>
      ]_vars

\* C21, the case: a send of a message that fits has returned EPERM through
\* the read-only second descriptor of a queue on which a receiver sleeps.
SendRefusedReached ==
    /\ out.op = "mq_timedsend" /\ out.rc = EPERM
    /\ DescOk(1) /\ DescOk(2)
    /\ desc[1].flags.perms = O_RDWR /\ desc[2].flags.perms = O_RDONLY
    /\ QueueOf(2).receivers # <<>>

\* C22: a receive through a write-only descriptor returns EPERM; a receive
\* with a buffer of fewer than mq_msgsize bytes through a descriptor that may
\* read returns EMSGSIZE, whether the queue is empty or holds a message that
\* would fit; in both cases the caller does not sleep, and the queues, with
\* their messages and senders, and every thread are left as they are.
ReceiveRefusals ==
    [][ \A t \in FlushUsers, fd \in Fds, len \in RcvLens :
           (/\ out'.op = "mq_timedreceive"
            /\ DescOk(fd)
            /\ desc[fd].flags.perms = O_WRONLY \/ len < QueueOf(fd).attr.mq_msgsize
            /\ TimedReceives(t, fd, len)) =>
               /\ out'.rc = (IF desc[fd].flags.perms = O_WRONLY THEN EPERM ELSE EMSGSIZE)
               /\ out'.data = <<>> /\ out'.len = 0
               /\ UNCHANGED <<registry, mq, mqq, desc, pc, loc>>
      ]_vars

\* C22, the case: a receive has returned EMSGSIZE for a buffer of one byte
\* on a queue of messages of two bytes that holds a message of one byte and
\* has a sender asleep.
ReceiveRefusedReached ==
    /\ out.op = "mq_timedreceive" /\ out.rc = EMSGSIZE
    /\ \E fd \in Fds :
          /\ DescOk(fd) /\ RcvPerm(desc[fd].flags)
          /\ QueueOf(fd).queued # <<>> /\ Head(QueueOf(fd).queued).len = 1
          /\ QueueOf(fd).senders # <<>>

\* ------------------------------------------------------------ the deadline

\* The tv_nsec fields outside [0, 1 000 000 000).
BadNsecs == {n \in Nsecs : n < 0 \/ n >= ONE_BILLION}

\* C23: mq_timedsend and mq_timedreceive with a tv_nsec field that is
\* negative, or 1 000 000 000 or more, return EINVAL and leave the queues,
\* the descriptors and the threads as they are, whatever the state of the
\* queue.
NsecRangeChecked ==
    [][ \A t \in FlushUsers, fd \in Fds, tv_nsec \in BadNsecs, deadline \in Deadlines :
           /\ \A m \in ErrMsgs :
                 (/\ out'.op = "mq_timedsend"
                  /\ MqTimedsend(t, fd, m.buffer, m.len, m.prio, tv_nsec, deadline)) =>
                     /\ out'.rc = EINVAL
                     /\ UNCHANGED <<registry, mq, mqq, desc, pc, loc>>
           /\ \A len \in RcvLens :
                 (/\ out'.op = "mq_timedreceive"
                  /\ MqTimedreceive(t, fd, len, TRUE, tv_nsec, deadline)) =>
                     /\ out'.rc = EINVAL
                     /\ UNCHANGED <<registry, mq, mqq, desc, pc, loc>>
      ]_vars

\* ----------------------------------------------------------- mq_maxmsg

\* C24: a creating mq_open with mq_maxmsg = 0 returns EINVAL and leaves no
\* queue behind, and every live queue has mq_maxmsg of 1 or more.
MaxmsgAtLeastOne ==
    /\ [](\A q \in Mqs : Live(q) => mq[q].attr.mq_maxmsg >= 1)
    /\ [][ \A memok \in BOOLEAN :
              (/\ pc["root"] = "open_init" /\ loc["root"].attr.mq_maxmsg = 0
               /\ MqOpenInit("root", memok)) =>
                  /\ out'.op = "mq_open" /\ out'.rc = EINVAL
                  /\ mq'[loc["root"].mq] = FreeMq
                  /\ registry'[loc["root"].name] = 0
                  /\ mqq' = mqq /\ desc' = desc
         ]_vars

\* --------------------------------------------------------------- unloading

\* The unloading has ended.
Down == pc["root"] = "down"

\* C25: the unloading of the package ends with pse51_mqq empty; each pass
\* of its loop destroys the queue at the head of pse51_mqq, which is a live
\* queue listed once, whether or not a name is linked to it and whether or
\* not descriptors are open on it: the queue leaves the list, its storage is
\* given back, its name leaves the registry, the threads asleep on it are
\* readied with the object-removed cause and the descriptors stay as they
\* were; no queue object is left when the unloading has ended.
CleanupDestroysAll ==
    /\ [](Down => mqq = <<>> /\ \A q \in Mqs : mq[q] = FreeMq)
    /\ [](\A i, j \in 1..Len(mqq) : mqq[i] = mqq[j] => i = j)
    /\ [][ \A q \in Mqs :
              (/\ out'.op = "pkg_cleanup" /\ mqq # <<>> /\ q = Head(mqq)
               /\ PkgCleanup) =>
                  /\ Live(q)
                  /\ mq'[q] = FreeMq
                  /\ q \notin OnQueue(mqq')
                  /\ Len(mqq') = Len(mqq) - 1
                  /\ registry'[mq[q].name] = 0
                  /\ desc' = desc
                  /\ \A x \in Threads : AsleepOn(x, q) => Flushed(x)'
         ]_vars
    /\ (pc["root"] = "cleanup" ~> Down)

\* The unloading has ended after destroying a queue that was linked, had two
\* descriptors open and a thread asleep on it, which returned EBADF.
CleanedUpInUse ==
    /\ Down /\ registry["/q"] = 0
    /\ desc[1].mq # 0 /\ desc[2].mq = desc[1].mq
    /\ out.rc = EBADF

\* ------------------------------------------------------------ after a wake

\* The causes that end a sleep other than the service by another caller, and
\* the error each of them stands for.
WakeCauses == {"XNRMID", "XNTIMEO", "XNBREAK"}
CauseRc(info) ==
    IF info = "XNRMID" THEN EBADF ELSE IF info = "XNTIMEO" THEN ETIMEDOUT ELSE EINTR

\* The thread has been handed a message in its sleep.
HandedOff(t) == thread2pthread(t) # NULL /\ loc[t].used = 1

\* C26: a woken sender or receiver returns EBADF when the queue was
\* destroyed, ETIMEDOUT when the deadline passed and EINTR when a signal
\* broke the sleep, in each case without touching the queue; it makes the
\* next attempt only when none of these woke it; a wake has one cause; a
\* receiver whose hand-off slot was marked used returns the message with
\* success before any cause is looked at.
WakeOutcome ==
    /\ [](\A t \in Threads :
            pc[t] \in {"snd_woken", "rcv_woken"} =>
               /\ loc[t].info \in WakeCauses \cup {"none"}
               /\ loc[t].used = 1 => loc[t].info = "none")
    /\ [](\A info \in WakeCauses \cup {"none"} : RcvWakeRc(TRUE, 1, info) = OK)
    /\ [][ \A t \in FlushUsers, expired \in BOOLEAN :
              /\ (pc[t] = "snd_woken" /\ SendResume(t, expired)) =>
                    IF loc[t].info \in WakeCauses
                    THEN /\ out' = Ret(t, "mq_timedsend", CauseRc(loc[t].info))
                         /\ pc'[t] = "idle"
                         /\ UNCHANGED <<registry, mq, mqq, desc>>
                    ELSE SendIter(t, loc[t].fd, loc[t].buffer, loc[t].len, loc[t].prio,
                                  loc[t].abs_to, expired)
              /\ (pc[t] = "rcv_woken" /\ RcvResume(t, expired)) =>
                    IF HandedOff(t)
                    THEN /\ out'.op = "mq_timedreceive" /\ out'.rc = OK
                         /\ out'.data = loc[t].buffer /\ out'.len = loc[t].len
                         /\ pc'[t] = "idle"
                         /\ UNCHANGED <<registry, mq, mqq, desc>>
                    ELSE IF loc[t].info \in WakeCauses
                    THEN /\ out' = Ret(t, "mq_timedreceive", CauseRc(loc[t].info))
                         /\ pc'[t] = "idle"
                         /\ UNCHANGED <<registry, mq, mqq, desc>>
                    ELSE RcvIter(t, loc[t].fd, loc[t].len, loc[t].priop, loc[t].abs_to,
                                 expired)
         ]_vars

\* The POSIX skin receiver has returned ETIMEDOUT from its sleep while the
\* other receiver, woken by a signal, has yet to return.
WokenByCauses ==
    /\ out.op = "mq_timedreceive" /\ out.rc = ETIMEDOUT /\ pc["p1"] = "idle"
    /\ pc["k1"] = "rcv_woken" /\ loc["k1"].info = "XNBREAK"
    /\ DescOk(1) /\ Live(desc[1].mq)

\* ------------------------------------------------------------- wake order

\* The pend queue has the sleepers of a higher priority in front.
PrioOrdered(q) ==
    \A i, j \in 1..Len(q) : i < j => ThreadPrio(q[i]) >= ThreadPrio(q[j])

\* Thread t has joined pend queue old, giving new: it stands behind the
\* sleepers of its priority and above and before those below, and the
\* others are in the order they were.
JoinedBehindEquals(old, new, t) ==
    /\ removeq(new, t) = old
    /\ \A i, j \in 1..Len(new) :
          new[i] = t /\ j # i => (j < i <=> ThreadPrio(new[j]) >= ThreadPrio(t))

\* C27: the sleepers of a queue are woken by priority and, among equals, in
\* the order they went to sleep: a receive that takes a message off the
\* queue readies the sender at the head of the sender pend queue and no
\* other; a send that succeeds while receivers sleep hands its message to
\* the receiver at the head of the receiver pend queue, which is readied
\* with its hand-off slot used, and no other; a receive that returns an
\* error readies no sender.
WakeOrder ==
    /\ [](\A q \in Mqs : PrioOrdered(mq[q].senders) /\ PrioOrdered(mq[q].receivers))
    /\ [][ \A q \in Mqs :
              /\ \A t \in PrioUsers :
                    /\ (pc[t] # "snd_sleep" /\ pc'[t] = "snd_sleep" /\ loc'[t].mq = q) =>
                          JoinedBehindEquals(mq[q].senders, mq'[q].senders, t)
                    /\ (pc[t] # "rcv_sleep" /\ pc'[t] = "rcv_sleep" /\ loc'[t].mq = q) =>
                          JoinedBehindEquals(mq[q].receivers, mq'[q].receivers, t)
              /\ (/\ out'.op = "mq_receive" /\ out'.rc = OK
                  /\ Len(mq'[q].queued) < Len(mq[q].queued)
                  /\ mq[q].senders # <<>>) =>
                     /\ mq'[q].senders = Tail(mq[q].senders)
                     /\ pc'[Head(mq[q].senders)] = "snd_woken"
                     /\ loc'[Head(mq[q].senders)].info = "none"
                     /\ \A x \in OnQueue(Tail(mq[q].senders)) : pc'[x] = "snd_sleep"
              /\ (/\ out'.op = "mq_send" /\ out'.rc = OK
                  /\ Live(q) /\ mq[q].receivers # <<>>) =>
                     /\ mq'[q].receivers = Tail(mq[q].receivers)
                     /\ pc'[Head(mq[q].receivers)] = "rcv_woken"
                     /\ loc'[Head(mq[q].receivers)].used = 1
                     /\ \A x \in OnQueue(Tail(mq[q].receivers)) : pc'[x] = "rcv_sleep"
              /\ (/\ out'.op = "mq_receive" /\ out'.rc \notin {OK, "sleep"}) =>
                     /\ mq'[q].senders = mq[q].senders
                     /\ \A x \in Threads : pc[x] = "snd_sleep" => pc'[x] = "snd_sleep"
         ]_vars

\* ------------------------------------------------ destruction and nklock

\* C28: while the package is loaded a queue is destroyed only by the caller
\* whose mq_close, mq_unlink or failing mq_open took the reference count to
\* zero with the name out of the registry, and only in a step of its own after the one, made under
\* nklock, that dropped the reference: that step leaves the queue live, on
\* pse51_mqq and with its sleepers asleep, and only pse51_mq_destroy run by
\* that caller ends the life of the queue; an mq_open that fails for want
\* of a descriptor while the name is linked destroys nothing.
DestroyOutsideLock ==
    /\ [](\A t \in Threads :
            pc[t] = "destroy" =>
               /\ Live(loc[t].mq) /\ mq[loc[t].mq].refcount = 0
               /\ ~Linked(loc[t].mq) /\ loc[t].mq \in OnQueue(mqq)
               /\ \A x \in Threads \ {t} : ~(pc[x] = "destroy" /\ loc[x].mq = loc[t].mq))
    /\ [][ \A q \in Mqs :
              /\ (Live(q) /\ ~Live(q)') =>
                    \E t \in Threads : pc[t] = "destroy" /\ loc[t].mq = q /\ MqDestroy(t)
              /\ \A t \in Threads :
                    (pc[t] # "destroy" /\ pc'[t] = "destroy" /\ loc'[t].mq = q) =>
                       /\ out'.op \in {"mq_close", "mq_unlink", "mq_open"}
                       /\ mq[q].refcount = 1
                       /\ mq'[q] = [mq[q] EXCEPT !.refcount = 0]
                       /\ ~Linked(q)'
                       /\ mqq' = mqq
                       /\ \A x \in Threads : AsleepOn(x, q) => pc'[x] = pc[x]
              /\ (out'.op = "mq_open" /\ out'.rc = EMFILE /\ Live(q)) =>
                    Live(q)' /\ q \in OnQueue(mqq')
         ]_vars

\* The last descriptor of the unlinked queue is closed, nklock is released
\* and pse51_mq_destroy has yet to run: a thread is still asleep on the queue.
DestroyPending ==
    /\ pc["root"] = "destroy" /\ out.op = "mq_close"
    /\ AsleepOn("p1", loc["root"].mq)

\* ------------------------------------------------- callers that may not sleep

\* The send of a message that fits through descriptor fd, open for writing,
\* cannot be served now: no slot is free and no POSIX skin receiver is at
\* the head of the receiver pend queue.
SendWouldBlock(fd) ==
    /\ QueueOf(fd).avail = <<>>
    /\ thread2pthread(QHead(QueueOf(fd).receivers)) = NULL

\* The receive through descriptor fd, open for reading, with a buffer of
\* the message size cannot be served now.
RcvWouldBlock(fd) == QueueOf(fd).queued = <<>>

\* The threads on the pend queues of the queue of descriptor fd after the
\* step.
PendingAfter(fd) == OnQueue(QueueAfter(fd).senders) \cup OnQueue(QueueAfter(fd).receivers)

\* C29: a send or receive of the root context, which may not sleep, that
\* cannot be served now returns EPERM through a blocking descriptor and
\* EAGAIN through a non-blocking one; one that can be served succeeds; in
\* every case the call returns in the same step and the caller is on no
\* pend queue, then or ever.
UnblockableRefused ==
    /\ [](/\ pc["root"] \notin {"snd_sleep", "snd_woken", "rcv_sleep", "rcv_woken"}
          /\ \A q \in Mqs : "root" \notin OnQueue(mq[q].senders) \cup OnQueue(mq[q].receivers))
    /\ [][ \A fd \in EngineFds :
              /\ \A m \in PoolMsgs :
                    (/\ out'.op \in {"mq_send", "mq_timedsend"} /\ DescOk(fd)
                     /\ CallsSend("root", fd, m)) =>
                        /\ out'.rc = IF ~SendWouldBlock(fd) THEN OK
                                     ELSE IF NonBlocking(fd) THEN EAGAIN ELSE EPERM
                        /\ pc'["root"] = "idle"
                        /\ "root" \notin PendingAfter(fd)
              /\ (/\ out'.op \in {"mq_receive", "mq_timedreceive"} /\ DescOk(fd)
                  /\ CallsReceive("root", fd)) =>
                     /\ out'.rc = IF ~RcvWouldBlock(fd) THEN OK
                                  ELSE IF NonBlocking(fd) THEN EAGAIN ELSE EPERM
                     /\ pc'["root"] = "idle"
                     /\ "root" \notin PendingAfter(fd)
         ]_vars

\* The root context has been refused with EPERM by mq_send on the full
\* queue of a blocking descriptor.
RefusedToSleep ==
    /\ out.op = "mq_send" /\ out.rc = EPERM
    /\ DescOk(1) /\ ~NonBlocking(1) /\ QueueOf(1).avail = <<>>

\* ------------------------------------------------------------ conservation

\* What a receiver gets of message m: the bytes, their number and the
\* priority.
Content(m) == [data |-> SubSeq(m.buffer, 1, m.len), len |-> m.len, prio |-> m.prio]
Kinds == {Content(m) : m \in EngineMsgs}

\* The messages of content c the package holds: those on the priority list
\* of a queue, and those handed to a sleeping receiver that has yet to
\* return from its mq_receive.
Enqueued(c) ==
    {<<q, i>> \in Mqs \X (1..MaxMsgs) :
        /\ i <= Len(mq[q].queued)
        /\ [data |-> mq[q].queued[i].data, len |-> mq[q].queued[i].len,
            prio |-> mq[q].queued[i].prio] = c}
InHand(c) ==
    {t \in Threads :
        /\ pc[t] = "rcv_woken" /\ loc[t].used = 1
        /\ [data |-> loc[t].buffer, len |-> loc[t].len, prio |-> loc[t].prio] = c}
Held(c) == Cardinality(Enqueued(c)) + Cardinality(InHand(c))

\* The step is a successful send of content c, a successful receive that
\* returns content c.
Accepts(c) ==
    /\ out'.op = "mq_send" /\ out'.rc = OK
    /\ \E t \in EngineThreads, fd \in EngineFds, m \in EngineMsgs :
          Content(m) = c /\ Sends(t, fd, m)
Returns(c) ==
    /\ out'.op = "mq_receive" /\ out'.rc = OK
    /\ [data |-> out'.data, len |-> out'.len, prio |-> out'.prio] = c

\* C30: no message is lost or duplicated: every message the package holds
\* is one that was sent; a successful send adds its message once to those
\* held, a successful receive returns one of those held and takes it away
\* once, and every other step, a receive that returns an error among them,
\* leaves the messages held as they are; a message handed to a sleeping
\* receiver is held until that receiver returns it.
MessagesConserved ==
    /\ [](\A q \in Mqs : \A i \in 1..Len(mq[q].queued) :
            [data |-> mq[q].queued[i].data, len |-> mq[q].queued[i].len,
             prio |-> mq[q].queued[i].prio] \in Kinds)
    /\ [](\A t \in Threads :
            (pc[t] = "rcv_woken" /\ loc[t].used = 1) =>
               [data |-> loc[t].buffer, len |-> loc[t].len, prio |-> loc[t].prio] \in Kinds)
    /\ [][ /\ \A c \in Kinds :
                Held(c)' = Held(c) + (IF Accepts(c) THEN 1 ELSE 0)
                                   - (IF Returns(c) THEN 1 ELSE 0)
           /\ (out'.op = "mq_receive" /\ out'.rc = OK) => \E c \in Kinds : Returns(c)
           /\ (out'.op = "mq_send" /\ out'.rc = OK) => \E c \in Kinds : Accepts(c)
         ]_vars

\* A send has returned success after handing its message to the sleeping
\* POSIX skin receiver, which has yet to return it: the message is on no
\* queue.
HeldInHand ==
    /\ out.op = "mq_send" /\ out.rc = OK
    /\ pc["p1"] = "rcv_woken" /\ loc["p1"].used = 1 /\ loc["p1"].buffer = <<2, 3>>
    /\ DescOk(1) /\ QueueOf(1).queued = <<>>

\* ------------------------------------------------- senders and receivers

\* C31: no queue has at the same time a thread asleep on its sender pend
\* queue and a thread asleep on its receiver pend queue.
NeverBothSuspended ==
    \A q \in Mqs : ~(mq[q].senders # <<>> /\ mq[q].receivers # <<>>)

\* C32: no sender stays asleep for ever on a queue that keeps a free slot:
\* for every thread, again and again it is not asleep in mq_send or the
\* queue it sleeps on has no slot free.
NoSenderStranded ==
    \A t \in PrioUsers :
       []<>~(pc[t] = "snd_sleep" /\ mq[loc[t].mq].avail # <<>>)

\* ------------------------------------------------------- freed queues

\* C33: a queue object is destroyed once, by pse51_mq_destroy on a live
\* queue that is on pse51_mqq; no descriptor refers to a queue object that
\* is not live, so that no service reaches a freed queue; no thread is
\* asleep on one; and no step writes to a freed queue object but the
\* mq_open that allocates it anew: a thread that resumes from its sleep
\* after the queue was destroyed leaves the object alone.
FreedNeverTouched ==
    /\ [](\A fd \in Fds : DescOk(fd) => Live(desc[fd].mq))
    /\ [](\A x \in Threads, q \in Mqs :
            AsleepOn(x, q) =>
               Live(q) /\ x \in OnQueue(mq[q].senders) \cup OnQueue(mq[q].receivers))
    /\ [](\A q \in Mqs : ~Live(q) => q \notin OnQueue(mqq))
    /\ [][ \A q \in Mqs :
              /\ mq[q].state = "free" =>
                    \/ mq'[q] = mq[q]
                    \/ out'.op = "mq_open" /\ mq'[q].state = "partial"
              /\ (mq[q].state # "free" /\ mq'[q].state = "free" /\ out'.rc = OK) =>
                    /\ Live(q) /\ Len(SelectSeq(mqq, LAMBDA x : x = q)) = 1
                    /\ DescsOf(q) = {}
                    /\ mq'[q] = FreeMq
                    /\ q \notin OnQueue(mqq')
         ]_vars

\* The queue has been destroyed while a sender that a receive had readied
\* has yet to run; its descriptor is closed.
ResumesAfterDestroy ==
    /\ pc["p1"] = "snd_woken" /\ loc["p1"].info = "none"
    /\ ~DescOk(1) /\ mqq = <<>>
    /\ out.op \in {"mq_close", "mq_unlink"} /\ out.rc = OK /\ pc["root"] = "idle"

\* ------------------------------------------------------ failures of mq_open

\* C34: every queue object that is allocated can be reached by a name or
\* by a descriptor, or is in the hands of the mq_open that creates it or of
\* the caller that destroys it; and an mq_open that returns an error leaves
\* nothing of its own behind: no queue object, no name, no entry of
\* pse51_mqq and no descriptor that was not there when it was called.
OpenErrorLeavesNothing ==
    /\ [](\A q \in Mqs :
            mq[q].state # "free" =>
               Linked(q) \/ DescsOf(q) # {} \/ Creating(q) \/ Destroying(q))
    /\ [][ (out'.op = "mq_open" /\ out'.rc \notin {OK, "init", "sleep", "destroy"}) =>
              /\ \A q \in Mqs :
                    mq'[q].state # "free" => mq[q].state # "free" /\ ~Creating(q)
              /\ \A n \in Names :
                    registry'[n] # 0 => registry[n] # 0 /\ ~Creating(registry[n])
              /\ mqq' = mqq /\ desc' = desc
         ]_vars

\* --------------------------------------------------- the hand-off buffer

\* C35: a thread asleep in a receive has a buffer of at least the message
\* size of the queue it sleeps on, and the step that hands a message to a
\* sleeping receiver writes no more bytes than that receiver's buffer
\* holds, and no more than the message size.
HandOffFits ==
    /\ [](\A x \in Threads, q \in Mqs :
            (pc[x] = "rcv_sleep" /\ loc[x].mq = q) =>
               loc[x].len >= mq[q].attr.mq_msgsize)
    /\ [][ \A x \in FlushUsers, q \in Mqs :
              (/\ pc[x] = "rcv_sleep" /\ loc[x].mq = q
               /\ pc'[x] = "rcv_woken" /\ loc'[x].used = 1) =>
                  /\ Len(loc'[x].buffer) = loc'[x].len
                  /\ loc'[x].len <= loc[x].len
                  /\ loc'[x].len <= mq[q].attr.mq_msgsize
                  /\ out'.op = "mq_timedsend" /\ out'.rc = OK
         ]_vars

\* A message of one byte has been handed to the POSIX skin receiver that
\* slept with a buffer of two bytes.
HandedShort ==
    /\ pc["p1"] = "rcv_woken" /\ loc["p1"].used = 1 /\ loc["p1"].len = 1
    /\ out.op = "mq_timedsend" /\ out.rc = OK

\* A thread woken with no cause set: its next step is the next pass of the
\* blocking loop, or the return of the message handed to it.
WokenNormally(t) == pc[t] \in {"snd_woken", "rcv_woken"} /\ loc[t].info = "none"

\* What the next pass of the loop of thread t does after the step when the
\* descriptor it sleeps through is looked up again: EBADF with the queues
\* as they are when the descriptor is closed, EAGAIN with the caller on no
\* pend queue and the messages as they are when the descriptor is now
\* non-blocking and the attempt cannot be served.
Revalidated(t, blocked) ==
    LET fd == loc[t].fd
    IN  IF ~DescOk(fd)
        THEN /\ out'.rc = EBADF
             /\ pc'[t] = "idle"
             /\ mq' = mq
        ELSE (NonBlocking(fd) /\ blocked) =>
                /\ out'.rc = EAGAIN
                /\ pc'[t] = "idle"
                /\ t \notin PendingAfter(fd)
                /\ QueueAfter(fd).queued = QueueOf(fd).queued

QueuedSlots(m) == {m.queued[i].slot : i \in 1..Len(m.queued)}

====
